---------------------------- MODULE Spec2Model ----------------------------
(***************************************************************************)
(* The Mars Rover kata: Direction (rotation and translation), Grid (bounds *)
(* and obstacle lookup), Rover (position, heading, the three primitive     *)
(* actions and report).                                                    *)
(*                                                                         *)
(* The specifications share the variables:                                 *)
(*   Spec          - a grid and a rover driven by arbitrary calls of       *)
(*                   grid.add, turnLeft, turnRight, moveForward, report;   *)
(*   SpecDirection - the Direction classes called on arbitrary arguments;  *)
(*   SpecGrid      - a grid under add / withinBounds / isBlocked calls;    *)
(*   SpecDriver    - the two entry points (index.ts reading a line,        *)
(*                   index.js with its fixed sequence) running commands;   *)
(*   SpecProgram   - Spec and SpecDriver side by side;                     *)
(*   SpecCommands  - command objects executed, and the rover called;       *)
(*   SpecFrame     - grid.add with the rover's operations;                 *)
(*   SpecSafe      - the forEach callback from a valid start cell.         *)
(*                                                                         *)
(* The design-patterns exercise: NotificationCenter (observer).            *)
(*   SpecObserver  - subscribe, unsubscribe and notify in any order.       *)
(* ErrorHandler.executeWithRetry.                                          *)
(*   SpecRetry     - one call, over every behaviour of the operation.      *)
(* ReportBuilder and the Report it builds.                                 *)
(*   SpecBuilder   - the builder's methods in any order, with build().     *)
(* DatabaseService over the MySQL and PostgreSQL adapters.                 *)
(*   SpecDatabase  - executeQuery, switchDatabase and the adapters'        *)
(*                   connect / disconnect called by the client.            *)
(* MenuService.                                                            *)
(*   SpecMenu      - start() over every line the user may type and every   *)
(*                   behaviour of the selected actions.                    *)
(***************************************************************************)
EXTENDS Integers, Sequences, FiniteSets, TLC

VARIABLES
    width,       \* Grid.width
    height,      \* Grid.height
    components,  \* Grid.components, in insertion order
    x,           \* Rover.x
    y,           \* Rover.y
    direction,   \* Rover.direction, the class of the Direction object
    op,          \* history: name of the last call made
    args,        \* history: arguments of the last call
    ret,         \* history: value returned by the last call
    pre,         \* history: the rover's fields when the last call started
    logged,      \* history: console lines written by the last call
    before,      \* history: op and pre as they were before the last call
    driver,      \* the entry point that runs: "index.ts", "index.js" or "none"
    answer,      \* index.ts: the line handed to the rl.question callback
    sequence,    \* the array of characters forEach runs over
    idx,         \* forEach: 1-based index of the next element
    pc,          \* position of the entry point
    console,     \* every console line of the run, in order
    trace,       \* history: the commands executed, with the rover before and after
    observers,     \* NotificationCenter.observers
    notifications, \* NotificationCenter.notifications
    calls,         \* history: the subscribe / unsubscribe calls made, in order
    updates,       \* history: the update calls of the last notify, in order
    attempt,        \* executeWithRetry: the loop variable
    delay,          \* executeWithRetry: the parameter delay, doubled after a sleep
    lastError,      \* executeWithRetry: the local lastError
    retryPc,        \* executeWithRetry: where the call stands
    operationCalls, \* history: the outcome of every operation() call, in order
    slept,          \* history: the argument of every sleep, in order
    title,         \* ReportBuilder.title
    author,        \* ReportBuilder.author
    tags,          \* ReportBuilder.tags
    format,        \* ReportBuilder.format
    sections,      \* ReportBuilder.sections
    sectionOrder,  \* ReportBuilder.sectionOrder
    added,         \* history: the arguments of every section added, in order
    database,      \* DatabaseService.database, an adapter
    connected,     \* LegacyMySQLDatabase.connected / ModernPostgreSQLDatabase.connectionStatus
    switchPc,      \* switchDatabase: where the call stands
    newDatabase,   \* switchDatabase: the parameter newDatabase
    previous,      \* history: this.database and its isConnected() when switchDatabase was called
    queries,       \* history: every query that reached a database, in order
    queriesBefore, \* history: queries when the last call started
    isRunning,     \* MenuService.isRunning
    currentMenu,   \* MenuService.currentMenu, the ids of its items
    menuPc,        \* start(): where the call stands
    choice,        \* the line of the last cycle: the local choice, as characters
    shown,         \* history: how many times the menu was displayed
    ran,           \* history: the action run in the last cycle, with its outcome
    handled        \* history: the handleError calls of the last cycle, in order

\* the variables of the entry points
driverVars == <<driver, answer, sequence, idx, pc, console, trace>>

\* the variables of the NotificationCenter
observerVars == <<observers, notifications, calls, updates>>

\* the variables of executeWithRetry
retryVars == <<attempt, delay, lastError, retryPc, operationCalls, slept>>

\* the variables of the ReportBuilder
builderVars == <<title, author, tags, format, sections, sectionOrder, added>>

\* the variables of the DatabaseService and the databases
databaseVars == <<database, connected, switchPc, newDatabase, previous, queries,
                  queriesBefore>>

\* the variables of the MenuService
menuVars == <<isRunning, currentMenu, menuPc, choice, shown, ran, handled>>

\* the variables of the design-patterns exercise
patternVars == <<observerVars, retryVars, builderVars, databaseVars, menuVars>>

\* the variables of the exercise besides those of one class
exceptObserver == <<retryVars, builderVars, databaseVars, menuVars>>
exceptRetry == <<observerVars, builderVars, databaseVars, menuVars>>
exceptBuilder == <<observerVars, retryVars, databaseVars, menuVars>>
exceptDatabase == <<observerVars, retryVars, builderVars, menuVars>>
exceptMenu == <<observerVars, retryVars, builderVars, databaseVars>>

vars == <<width, height, components, x, y, direction, op, args, ret, pre, logged,
          before, driverVars, patternVars>>

\* no NotificationCenter has been constructed
NoObserver ==
    /\ observers = <<>>
    /\ notifications = <<>>
    /\ calls = <<>>
    /\ updates = <<>>

\* executeWithRetry has not been called
NoRetry ==
    /\ attempt = 0
    /\ delay = 0
    /\ lastError = "undefined"
    /\ retryPc = "idle"
    /\ operationCalls = <<>>
    /\ slept = <<>>

\* new ReportBuilder(): the field initialisers
NoBuilder ==
    /\ title = ""
    /\ author = ""
    /\ tags = <<>>
    /\ format = "HTML"
    /\ sections = <<>>
    /\ sectionOrder = 1
    /\ added = <<>>

\* the third-party database objects the client constructs
Databases == {"legacyMySQL", "modernPostgreSQL"}

\* no DatabaseService has been constructed
NoDatabase ==
    /\ database = "none"
    /\ connected = [d \in Databases |-> FALSE]
    /\ switchPc = "idle"
    /\ newDatabase = "none"
    /\ previous = [database |-> "none", connected |-> FALSE]
    /\ queries = <<>>
    /\ queriesBefore = <<>>

\* new MenuService(): the field initialisers
NoMenu ==
    /\ isRunning = FALSE
    /\ currentMenu = <<>>
    /\ menuPc = "new"
    /\ choice = <<>>
    /\ shown = 0
    /\ ran = <<>>
    /\ handled = <<>>

\* the design-patterns exercise does not run
NoPatterns == NoObserver /\ NoRetry /\ NoBuilder /\ NoDatabase /\ NoMenu

\* the classes of the exercise besides one are not used
OnlyObserver == NoRetry /\ NoBuilder /\ NoDatabase /\ NoMenu
OnlyRetry == NoObserver /\ NoBuilder /\ NoDatabase /\ NoMenu
OnlyBuilder == NoObserver /\ NoRetry /\ NoDatabase /\ NoMenu
OnlyDatabase == NoObserver /\ NoRetry /\ NoBuilder /\ NoMenu
OnlyMenu == NoObserver /\ NoRetry /\ NoBuilder /\ NoDatabase

----------------------------------------------------------------------------
(* Bounds of the model *)

\* grids have width and height in 1..MaxDim
MaxDim == 2
\* components a grid of SpecGrid can hold
MaxComponents == 2
\* components the grid of Spec can hold
MaxRoverComponents == 1
\* Direction.move is called on coordinates in -MaxCoord..MaxCoord
MaxCoord == 3
\* longest chain of left() / right() calls, as in h.left().left().left().left()
MaxChain == 4

----------------------------------------------------------------------------
(* Direction *)

Directions == {"North", "East", "South", "West"}

\* Direction.left(), by class
LeftSouthTypo(d) ==
    CASE d = "North" -> "West"
      [] d = "South" -> "West"
      [] d = "East"  -> "North"
      [] d = "West"  -> "South"

Left(d) ==
    CASE d = "North" -> "West"
      [] d = "South" -> "East"
      [] d = "East"  -> "North"
      [] d = "West"  -> "South"

\* Direction.right(), by class
RightEastTypo(d) ==
    CASE d = "North" -> "East"
      [] d = "South" -> "West"
      [] d = "East"  -> "North"
      [] d = "West"  -> "North"

Right(d) ==
    CASE d = "North" -> "East"
      [] d = "South" -> "West"
      [] d = "East"  -> "South"
      [] d = "West"  -> "North"

\* Direction.move(x, y), by class: the pair [nx, ny]
MoveWestDrifts(d, px, py) ==
    CASE d = "North" -> <<px, py + 1>>
      [] d = "South" -> <<px, py - 1>>
      [] d = "East"  -> <<px + 1, py>>
      [] d = "West"  -> <<px - 1, py - 1>>

Move(d, px, py) ==
    CASE d = "North" -> <<px, py + 1>>
      [] d = "South" -> <<px, py - 1>>
      [] d = "East"  -> <<px + 1, py>>
      [] d = "West"  -> <<px - 1, py>>

\* Direction.name(), by class
Name(d) ==
    CASE d = "North" -> "N"
      [] d = "South" -> "S"
      [] d = "East"  -> "E"
      [] d = "West"  -> "W"

----------------------------------------------------------------------------
(* Grid components *)

\* Cell.isObstacle() is false, Obstacle.isObstacle() is true
IsObstacle(c) ==
    CASE c.kind = "Cell"     -> FALSE
      [] c.kind = "Obstacle" -> TRUE

\* new Cell(cx, cy)
Cell(cx, cy) == [kind |-> "Cell", x |-> cx, y |-> cy]

\* new Obstacle(cx, cy)
Obstacle(cx, cy) == [kind |-> "Obstacle", x |-> cx, y |-> cy]

\* the components the model adds to a grid lie in the corner [0,1] x [0,1]
CompCoord == 0 .. 1
Components ==
    {Cell(cx, cy) : cx \in CompCoord, cy \in CompCoord}
        \cup {Obstacle(cx, cy) : cx \in CompCoord, cy \in CompCoord}

----------------------------------------------------------------------------
(* Grid *)

\* Grid.withinBounds(x, y)
WithinBoundsInclusive(w, h, px, py) ==
    px >= 0 /\ py >= 0 /\ px <= w /\ py <= h

WithinBounds(w, h, px, py) ==
    px >= 0 /\ py >= 0 /\ px < w /\ py < h

\* Array.prototype.some over components[i..], left to right
RECURSIVE SomeObstacleAt(_, _, _, _)
SomeObstacleAt(cs, i, px, py) ==
    IF i > Len(cs) THEN FALSE
    ELSE IF IsObstacle(cs[i]) /\ cs[i].x = px /\ cs[i].y = py THEN TRUE
    ELSE SomeObstacleAt(cs, i + 1, px, py)

\* Grid.isBlocked(x, y)
IsBlockedByAnyComponent(cs, px, py) ==
    \E i \in 1 .. Len(cs) : cs[i].x = px /\ cs[i].y = py

IsBlocked(cs, px, py) == SomeObstacleAt(cs, 1, px, py)

\* Grid.add(component), on a grid that holds fewer than limit components
AddReplacesAll(c, limit) ==
    /\ Len(components) < limit
    /\ components' = <<c>>
    /\ op' = "add"
    /\ args' = <<c>>
    /\ ret' = "void"
    /\ pre' = [x |-> x, y |-> y, direction |-> direction]
    /\ logged' = <<>>
    /\ UNCHANGED <<width, height, x, y, direction>>

Add(c, limit) ==
    /\ Len(components) < limit
    /\ components' = Append(components, c)
    /\ op' = "add"
    /\ args' = <<c>>
    /\ ret' = "void"
    /\ pre' = [x |-> x, y |-> y, direction |-> direction]
    /\ logged' = <<>>
    /\ UNCHANGED <<width, height, x, y, direction>>

----------------------------------------------------------------------------
(* Rover *)

RoverState == [x |-> x, y |-> y, direction |-> direction]

\* the console line of a rejected move
BlockedLine(nx, ny) == <<"Movement blocked at (", nx, ", ", ny, ")">>

\* Rover.turnLeft()
TurnLeftAndStep ==
    /\ direction' = Left(direction)
    /\ x' = Move(direction, x, y)[1]
    /\ y' = Move(direction, x, y)[2]
    /\ op' = "turnLeft"
    /\ args' = <<>>
    /\ ret' = "void"
    /\ pre' = RoverState
    /\ logged' = <<>>
    /\ UNCHANGED <<width, height, components>>

TurnLeft ==
    /\ direction' = Left(direction)
    /\ op' = "turnLeft"
    /\ args' = <<>>
    /\ ret' = "void"
    /\ pre' = RoverState
    /\ logged' = <<>>
    /\ UNCHANGED <<width, height, components, x, y>>

\* Rover.turnRight()
TurnRight ==
    /\ direction' = Right(direction)
    /\ op' = "turnRight"
    /\ args' = <<>>
    /\ ret' = "void"
    /\ pre' = RoverState
    /\ logged' = <<>>
    /\ UNCHANGED <<width, height, components, x, y>>

\* Rover.moveForward()
MoveForwardIgnoresObstacles ==
    LET n == Move(direction, x, y)
        nx == n[1]
        ny == n[2]
    IN  /\ IF WithinBounds(width, height, nx, ny)
           THEN /\ x' = nx
                /\ y' = ny
                /\ logged' = <<>>
           ELSE /\ UNCHANGED <<x, y>>
                /\ logged' = <<BlockedLine(nx, ny)>>
        /\ op' = "moveForward"
        /\ args' = <<>>
        /\ ret' = "void"
        /\ pre' = RoverState
        /\ UNCHANGED <<width, height, components, direction>>

MoveForwardDropsY ==
    LET n == Move(direction, x, y)
        nx == n[1]
        ny == n[2]
    IN  /\ IF WithinBounds(width, height, nx, ny) /\ ~IsBlocked(components, nx, ny)
           THEN /\ x' = nx
                /\ y' = y
                /\ logged' = <<>>
           ELSE /\ UNCHANGED <<x, y>>
                /\ logged' = <<BlockedLine(nx, ny)>>
        /\ op' = "moveForward"
        /\ args' = <<>>
        /\ ret' = "void"
        /\ pre' = RoverState
        /\ UNCHANGED <<width, height, components, direction>>

MoveForwardTurnsWhenBlocked ==
    LET n == Move(direction, x, y)
        nx == n[1]
        ny == n[2]
    IN  /\ IF WithinBounds(width, height, nx, ny) /\ ~IsBlocked(components, nx, ny)
           THEN /\ x' = nx
                /\ y' = ny
                /\ logged' = <<>>
                /\ UNCHANGED direction
           ELSE /\ UNCHANGED <<x, y>>
                /\ direction' = Right(direction)
                /\ logged' = <<BlockedLine(nx, ny)>>
        /\ op' = "moveForward"
        /\ args' = <<>>
        /\ ret' = "void"
        /\ pre' = RoverState
        /\ UNCHANGED <<width, height, components>>

MoveForwardThrowsWhenBlocked ==
    LET n == Move(direction, x, y)
        nx == n[1]
        ny == n[2]
    IN  /\ WithinBounds(width, height, nx, ny)
        /\ ~IsBlocked(components, nx, ny)
        /\ x' = nx
        /\ y' = ny
        /\ logged' = <<>>
        /\ op' = "moveForward"
        /\ args' = <<>>
        /\ ret' = "void"
        /\ pre' = RoverState
        /\ UNCHANGED <<width, height, components, direction>>

MoveForwardLogsOwnCell ==
    LET n == Move(direction, x, y)
        nx == n[1]
        ny == n[2]
    IN  /\ IF WithinBounds(width, height, nx, ny) /\ ~IsBlocked(components, nx, ny)
           THEN /\ x' = nx
                /\ y' = ny
                /\ logged' = <<>>
           ELSE /\ UNCHANGED <<x, y>>
                /\ logged' = <<BlockedLine(x, y)>>
        /\ op' = "moveForward"
        /\ args' = <<>>
        /\ ret' = "void"
        /\ pre' = RoverState
        /\ UNCHANGED <<width, height, components, direction>>

MoveForward ==
    LET n == Move(direction, x, y)
        nx == n[1]
        ny == n[2]
    IN  /\ IF WithinBounds(width, height, nx, ny) /\ ~IsBlocked(components, nx, ny)
           THEN /\ x' = nx
                /\ y' = ny
                /\ logged' = <<>>
           ELSE /\ UNCHANGED <<x, y>>
                /\ logged' = <<BlockedLine(nx, ny)>>
        /\ op' = "moveForward"
        /\ args' = <<>>
        /\ ret' = "void"
        /\ pre' = RoverState
        /\ UNCHANGED <<width, height, components, direction>>

\* the string Rover.report() builds, as its pieces
ReportStringSwapsXY(rx, ry, d) == <<"Rover is at (", ry, ", ", rx, ") facing ", Name(d)>>

ReportString(rx, ry, d) == <<"Rover is at (", rx, ", ", ry, ") facing ", Name(d)>>

\* Rover.report()
Report ==
    /\ op' = "report"
    /\ args' = <<>>
    /\ ret' = ReportString(x, y, direction)
    /\ pre' = RoverState
    /\ logged' = <<>>
    /\ UNCHANGED <<width, height, components, x, y, direction>>

----------------------------------------------------------------------------
(* Spec: new Grid(w, h) and new Rover(x, y, d, grid), then any calls.  The  *)
(* Rover constructor stores its arguments unchecked, so the start cell may *)
(* lie outside the grid.                                                   *)

StartCoord == -1 .. MaxDim

\* no entry point runs: the classes are called directly
NoDriver ==
    /\ driver = "none"
    /\ answer = <<>>
    /\ sequence = <<>>
    /\ idx = 0
    /\ pc = "api"
    /\ console = <<>>
    /\ trace = <<>>

\* a direct call: it moves op and pre into before
DirectCall ==
    /\ before' = [op |-> op, pre |-> pre]
    /\ UNCHANGED <<driverVars, patternVars>>

NoCallYet == before = [op |-> "none", pre |-> pre]

Init ==
    /\ NoDriver
    /\ width \in 1 .. MaxDim
    /\ height \in 1 .. MaxDim
    /\ components = <<>>
    /\ x \in StartCoord
    /\ y \in StartCoord
    /\ direction \in Directions
    /\ op = "new"
    /\ args = <<>>
    /\ ret = "void"
    /\ pre = [x |-> x, y |-> y, direction |-> direction]
    /\ logged = <<>>
    /\ NoCallYet
    /\ NoPatterns

RoverGridAdd == \E c \in Components : Add(c, MaxRoverComponents)

Next ==
    \/ RoverGridAdd /\ DirectCall
    \/ TurnLeft /\ DirectCall
    \/ TurnRight /\ DirectCall
    \/ MoveForward /\ DirectCall
    \/ Report /\ DirectCall

Spec == Init /\ [][Next]_vars

----------------------------------------------------------------------------
(* The reference scenario of index.ts: a 10x10 grid with obstacles at      *)
(* (2,2) and (3,5) and a rover at (0,0) facing North.                      *)

RefWidth == 10
RefHeight == 10
RefComponents == <<Obstacle(2, 2), Obstacle(3, 5)>>

RefSetup ==
    /\ width = RefWidth
    /\ height = RefHeight
    /\ components = RefComponents
    /\ x = 0
    /\ y = 0
    /\ direction = "North"
    /\ pre = [x |-> 0, y |-> 0, direction |-> "North"]
    /\ logged = <<>>

----------------------------------------------------------------------------
(* SpecDirection: the four Direction classes, each method called on any    *)
(* argument.  A call records its receiver and arguments in args and its    *)
(* result in ret.                                                          *)

QCoord == (0 - MaxCoord) .. MaxCoord

\* d.left()
CallLeft(d) ==
    /\ op' = "left"
    /\ args' = <<d>>
    /\ ret' = Left(d)
    /\ UNCHANGED <<width, height, components, x, y, direction, pre, logged>>

\* d.right()
CallRight(d) ==
    /\ op' = "right"
    /\ args' = <<d>>
    /\ ret' = Right(d)
    /\ UNCHANGED <<width, height, components, x, y, direction, pre, logged>>

\* d.move(qx, qy)
CallMove(d, qx, qy) ==
    /\ op' = "move"
    /\ args' = <<d, qx, qy>>
    /\ ret' = Move(d, qx, qy)
    /\ UNCHANGED <<width, height, components, x, y, direction, pre, logged>>

\* d.name()
CallName(d) ==
    /\ op' = "name"
    /\ args' = <<d>>
    /\ ret' = Name(d)
    /\ UNCHANGED <<width, height, components, x, y, direction, pre, logged>>

\* the methods of the chain the last call ended, oldest first
ChainMethods == IF op = "chain" THEN Tail(args) ELSE <<op>>

\* one more left() or right() on the Direction the last call returned:
\* args keeps the first receiver and the methods called, ret the result
ChainCall(m) ==
    /\ op \in {"left", "right", "chain"}
    /\ Len(ChainMethods) < MaxChain
    /\ op' = "chain"
    /\ args' = <<args[1]>> \o ChainMethods \o <<m>>
    /\ ret' = IF m = "left" THEN Left(ret) ELSE Right(ret)
    /\ UNCHANGED <<width, height, components, x, y, direction, pre, logged>>

\* after d.move(qx, qy): the move of the opposite heading, d.left().left()
\* or d.right().right(), on the pair returned
CallMoveBack(rot) ==
    /\ op = "move"
    /\ op' = "moveBack"
    /\ args' = Append(args, rot)
    /\ ret' = Move(IF rot = "left" THEN Left(Left(args[1])) ELSE Right(Right(args[1])),
                   ret[1], ret[2])
    /\ UNCHANGED <<width, height, components, x, y, direction, pre, logged>>

InitDirection ==
    /\ NoDriver
    /\ RefSetup
    /\ op = "new"
    /\ args = <<>>
    /\ ret = "void"
    /\ NoCallYet
    /\ NoPatterns

DirLeft == \E d \in Directions : CallLeft(d)
DirRight == \E d \in Directions : CallRight(d)
DirMove == \E d \in Directions : \E qx \in QCoord : \E qy \in QCoord : CallMove(d, qx, qy)
DirName == \E d \in Directions : CallName(d)
DirChain == \E m \in {"left", "right"} : ChainCall(m)
DirMoveBack == \E rot \in {"left", "right"} : CallMoveBack(rot)

NextDirection ==
    \/ DirLeft /\ UNCHANGED <<before, driverVars, patternVars>>
    \/ DirRight /\ UNCHANGED <<before, driverVars, patternVars>>
    \/ DirMove /\ UNCHANGED <<before, driverVars, patternVars>>
    \/ DirName /\ UNCHANGED <<before, driverVars, patternVars>>
    \/ DirChain /\ UNCHANGED <<before, driverVars, patternVars>>
    \/ DirMoveBack /\ UNCHANGED <<before, driverVars, patternVars>>

SpecDirection == InitDirection /\ [][NextDirection]_vars

----------------------------------------------------------------------------
(* SpecGrid: new Grid(w, h), then add, withinBounds and isBlocked called   *)
(* in any order on any argument.                                           *)

GridQCoord == -1 .. MaxDim

\* grid.withinBounds(qx, qy)
CallWithinBounds(qx, qy) ==
    /\ op' = "withinBounds"
    /\ args' = <<qx, qy>>
    /\ ret' = WithinBounds(width, height, qx, qy)
    /\ UNCHANGED <<width, height, components, x, y, direction, pre, logged>>

\* grid.isBlocked(qx, qy)
CallIsBlocked(qx, qy) ==
    /\ op' = "isBlocked"
    /\ args' = <<qx, qy>>
    /\ ret' = IsBlocked(components, qx, qy)
    /\ UNCHANGED <<width, height, components, x, y, direction, pre, logged>>

InitGrid ==
    /\ NoDriver
    /\ width \in 1 .. MaxDim
    /\ height \in 1 .. MaxDim
    /\ components = <<>>
    /\ x = 0
    /\ y = 0
    /\ direction = "North"
    /\ pre = [x |-> 0, y |-> 0, direction |-> "North"]
    /\ logged = <<>>
    /\ op = "new"
    /\ args = <<>>
    /\ ret = "void"
    /\ NoCallYet
    /\ NoPatterns

GridAdd == \E c \in Components : Add(c, MaxComponents)
GridWithinBounds == \E qx \in GridQCoord : \E qy \in GridQCoord : CallWithinBounds(qx, qy)
GridIsBlocked == \E qx \in GridQCoord : \E qy \in GridQCoord : CallIsBlocked(qx, qy)

NextGrid ==
    \/ GridAdd /\ UNCHANGED <<before, driverVars, patternVars>>
    \/ GridWithinBounds /\ UNCHANGED <<before, driverVars, patternVars>>
    \/ GridIsBlocked /\ UNCHANGED <<before, driverVars, patternVars>>

SpecGrid == InitGrid /\ [][NextGrid]_vars

----------------------------------------------------------------------------
(* Command layer *)

\* MoveCommand.execute()
MoveCommandExecute == MoveForward

\* TurnLeftCommand.execute()
TurnLeftCommandExecute == TurnLeft

\* TurnRightCommand.execute()
TurnRightCommandCallsTurnLeft == TurnLeft

TurnRightCommandExecute == TurnRight

\* the keys of commandMap
CommandKeys == {"M", "L", "R"}

\* commandMap[cmd]().execute(): a new command of the key's class, executed
Execute(cmd) ==
    \/ cmd = "M" /\ MoveCommandExecute
    \/ cmd = "L" /\ TurnLeftCommandExecute
    \/ cmd = "R" /\ TurnRightCommandExecute

----------------------------------------------------------------------------
(* The strings of the entry point: a string is the sequence of its         *)
(* characters, so split('') is the sequence itself.                        *)

\* the characters the model types: the keys, their lower case, a letter
\* that is no key, and a blank
Chars == {"M", "L", "R", "m", "l", "r", "x", " "}

\* longest line the model types, besides the examples
MaxInput == 4

\* the sequence of index.js and of the commented block of index.ts
ExampleSequence == <<"M", "M", "R", "M", "L", "M">>

\* a line that runs into the obstacle at (2,2) and goes on
ObstacleLine == <<"M", "M", "R", "M", "M", "L", "M">>

Inputs ==
    UNION {[1 .. n -> Chars] : n \in 0 .. MaxInput}
        \cup {ExampleSequence, ObstacleLine}

IsWhiteSpace(c) == c = " "

\* String.prototype.trim: white space removed from both ends
RECURSIVE TrimStart(_)
TrimStart(str) ==
    IF str # <<>> /\ IsWhiteSpace(Head(str)) THEN TrimStart(Tail(str)) ELSE str

RECURSIVE TrimEnd(_)
TrimEnd(str) ==
    IF str # <<>> /\ IsWhiteSpace(str[Len(str)])
    THEN TrimEnd(SubSeq(str, 1, Len(str) - 1))
    ELSE str

Trim(str) == TrimEnd(TrimStart(str))

\* String.prototype.toUpperCase, character by character
UpperCharKeepsCase(c) == c

UpperChar(c) ==
    CASE c = "m" -> "M"
      [] c = "l" -> "L"
      [] c = "r" -> "R"
      [] c = "x" -> "X"
      [] OTHER -> c

ToUpperCase(str) == [i \in 1 .. Len(str) |-> UpperChar(str[i])]

----------------------------------------------------------------------------
(* The entry points.  index.ts asks for a line and runs it in the          *)
(* rl.question callback; index.js runs its fixed sequence.  Both build the *)
(* 10x10 grid with two obstacles and a rover at (0,0) facing North.        *)

\* console.log(`Invalid command: ${cmd}`)
InvalidLine(cmd) == <<"Invalid command: ", cmd>>

\* the else branch of the forEach callback of index.ts
LogInvalid(cmd) ==
    /\ op' = "console.log"
    /\ args' = <<cmd>>
    /\ ret' = "void"
    /\ pre' = RoverState
    /\ logged' = <<InvalidLine(cmd)>>
    /\ UNCHANGED <<width, height, components, x, y, direction>>

\* the element forEach hands to its callback
NextCmdFromEnd == sequence[Len(sequence) + 1 - idx]

NextCmd == sequence[idx]

\* the forEach callback: index.ts tests commandMap[cmd], index.js does not
ForEachBodyUnguarded(cmd) ==
    /\ Execute(cmd)
    /\ trace' = Append(trace, [cmd |-> cmd, before |-> RoverState, after |-> RoverState'])

ForEachBody(cmd) ==
    IF driver = "index.js" \/ cmd \in CommandKeys
    THEN /\ Execute(cmd)
         /\ trace' = Append(trace, [cmd |-> cmd, before |-> RoverState, after |-> RoverState'])
    ELSE /\ LogInvalid(cmd)
         /\ trace' = trace

\* one iteration of sequence.forEach
ForEachStepStopsWhenBlocked ==
    /\ pc = "forEach"
    /\ idx <= Len(sequence)
    /\ ForEachBody(NextCmd)
    /\ console' = console \o logged'
    /\ idx' = IF op' = "moveForward" /\ logged' # <<>> THEN Len(sequence) + 1 ELSE idx + 1
    /\ before' = [op |-> op, pre |-> pre]
    /\ UNCHANGED <<driver, answer, sequence, pc, patternVars>>

ForEachStep ==
    /\ pc = "forEach"
    /\ idx <= Len(sequence)
    /\ ForEachBody(NextCmd)
    /\ console' = console \o logged'
    /\ idx' = idx + 1
    /\ before' = [op |-> op, pre |-> pre]
    /\ UNCHANGED <<driver, answer, sequence, pc, patternVars>>

\* the head of the rl.question callback: the line is trimmed, upper-cased
\* and split into characters
Question(a) ==
    /\ pc = "question"
    /\ answer' = a
    /\ sequence' = ToUpperCase(Trim(a))
    /\ idx' = 1
    /\ pc' = "forEach"
    /\ UNCHANGED <<width, height, components, x, y, direction, op, args, ret,
                   pre, logged, before, driver, console, trace, patternVars>>

\* the line of the final console.log
FinalLine(r) == IF driver = "index.ts" THEN <<"Final rover state:", r>> ELSE r

\* after forEach: console.log of rover.report(), and rl.close() in index.ts
FinalReport ==
    /\ pc = "forEach"
    /\ idx > Len(sequence)
    /\ Report
    /\ console' = Append(console, FinalLine(ret'))
    /\ pc' = "closed"
    /\ before' = [op |-> op, pre |-> pre]
    /\ UNCHANGED <<driver, answer, sequence, idx, trace, patternVars>>

InitDriver ==
    /\ RefSetup
    /\ op = "new"
    /\ args = <<>>
    /\ ret = "void"
    /\ NoCallYet
    /\ NoPatterns
    /\ driver \in {"index.ts", "index.js"}
    /\ answer = <<>>
    /\ sequence = IF driver = "index.js" THEN ExampleSequence ELSE <<>>
    /\ idx = 1
    /\ pc = IF driver = "index.js" THEN "forEach" ELSE "question"
    /\ console = <<>>
    /\ trace = <<>>

ReadLine == pc = "question" /\ \E a \in Inputs : Question(a)

NextDriver ==
    \/ ReadLine
    \/ ForEachStep
    \/ FinalReport

SpecDriver == InitDriver /\ [][NextDriver]_vars

----------------------------------------------------------------------------
(* SpecProgram: the classes called directly on any grid (Spec) or through  *)
(* an entry point (SpecDriver); a run is one or the other.                 *)

InitProgram == Init \/ InitDriver

NextProgram ==
    \/ pc = "api" /\ Next
    \/ NextDriver

SpecProgram == InitProgram /\ [][NextProgram]_vars

----------------------------------------------------------------------------
(* SpecCommands: a grid set up with at most one component, a rover, and    *)
(* one command object of each class constructed on that rover; then        *)
(* execute() on the command objects and the rover's methods called         *)
(* directly, in any order.  trace holds the run of consecutive execute()   *)
(* calls on one command object that the last call belongs to.              *)

\* longest run of execute() calls on one command object
MaxExec == 3

\* the run of executions goes on with the same object or starts with another
RunWith(cmd) ==
    IF trace # <<>> /\ trace[1].cmd = cmd THEN trace ELSE <<>>

\* command.execute() on the command object of key cmd
CommandExecute(cmd) ==
    /\ Len(RunWith(cmd)) < MaxExec
    /\ Execute(cmd)
    /\ trace' = Append(RunWith(cmd),
                       [cmd |-> cmd, before |-> RoverState, after |-> RoverState'])
    /\ before' = [op |-> op, pre |-> pre]
    /\ UNCHANGED <<driver, answer, sequence, idx, pc, console, patternVars>>

\* a method of the rover called directly: it ends the run of executions
RoverCall(cmd) ==
    /\ \/ cmd = "M" /\ MoveForward
       \/ cmd = "L" /\ TurnLeft
       \/ cmd = "R" /\ TurnRight
    /\ trace' = <<>>
    /\ before' = [op |-> op, pre |-> pre]
    /\ UNCHANGED <<driver, answer, sequence, idx, pc, console, patternVars>>

InitCommands ==
    /\ NoDriver
    /\ width \in 1 .. MaxDim
    /\ height \in 1 .. MaxDim
    /\ components \in {<<>>} \cup {<<c>> : c \in Components}
    /\ x \in StartCoord
    /\ y \in StartCoord
    /\ direction \in Directions
    /\ op = "new"
    /\ args = <<>>
    /\ ret = "void"
    /\ pre = [x |-> x, y |-> y, direction |-> direction]
    /\ logged = <<>>
    /\ NoCallYet
    /\ NoPatterns

ExecuteMove == CommandExecute("M")
ExecuteTurnLeft == CommandExecute("L")
ExecuteTurnRight == CommandExecute("R")
CallMoveForward == RoverCall("M")
CallTurnLeft == RoverCall("L")
CallTurnRight == RoverCall("R")

NextCommands ==
    \/ ExecuteMove
    \/ ExecuteTurnLeft
    \/ ExecuteTurnRight
    \/ CallMoveForward
    \/ CallTurnLeft
    \/ CallTurnRight

SpecCommands == InitCommands /\ [][NextCommands]_vars

----------------------------------------------------------------------------
(* SpecFrame: a grid and a rover at (0,0) facing North; grid.add, the      *)
(* rover's methods and the commands' execute() in any order.               *)

\* the components added: obstacles next to the corner and a plain cell
FrameComponents == {Obstacle(0, 1), Obstacle(1, 0), Obstacle(1, 1), Cell(0, 1)}

InitFrame ==
    /\ NoDriver
    /\ width \in 1 .. MaxDim
    /\ height \in 1 .. MaxDim
    /\ components = <<>>
    /\ x = 0
    /\ y = 0
    /\ direction = "North"
    /\ op = "new"
    /\ args = <<>>
    /\ ret = "void"
    /\ pre = [x |-> 0, y |-> 0, direction |-> "North"]
    /\ logged = <<>>
    /\ NoCallYet
    /\ NoPatterns

FrameAdd == \E c \in FrameComponents : Add(c, MaxComponents)
FrameExecute == \E cmd \in CommandKeys : Execute(cmd)

NextFrame ==
    \/ FrameAdd /\ UNCHANGED <<before, driverVars, patternVars>>
    \/ TurnLeft /\ UNCHANGED <<before, driverVars, patternVars>>
    \/ TurnRight /\ UNCHANGED <<before, driverVars, patternVars>>
    \/ MoveForward /\ UNCHANGED <<before, driverVars, patternVars>>
    \/ Report /\ UNCHANGED <<before, driverVars, patternVars>>
    \/ FrameExecute /\ UNCHANGED <<before, driverVars, patternVars>>

SpecFrame == InitFrame /\ [][NextFrame]_vars

----------------------------------------------------------------------------
(* SpecSafe: a grid set up with any components, a rover constructed on a   *)
(* cell that withinBounds accepts and isBlocked does not block; then the   *)
(* forEach callback of index.ts on any character, any number of times,     *)
(* and grid.add of plain cells.                                            *)

\* the callback of sequence.forEach in index.ts
Callback(cmd) ==
    IF cmd \in CommandKeys THEN Execute(cmd) ELSE LogInvalid(cmd)

\* the characters a trimmed, upper-cased line is made of
UpperChars == {"M", "L", "R", "X", " "}

\* the components the grid is set up with, in the order of their add calls
SetupComponents == UNION {[1 .. n -> Components] : n \in 0 .. MaxRoverComponents}

InitSafe ==
    /\ NoDriver
    /\ width \in 1 .. MaxDim
    /\ height \in 1 .. MaxDim
    /\ components \in SetupComponents
    /\ x \in StartCoord
    /\ y \in StartCoord
    /\ WithinBounds(width, height, x, y)
    /\ ~IsBlocked(components, x, y)
    /\ direction \in Directions
    /\ op = "new"
    /\ args = <<>>
    /\ ret = "void"
    /\ pre = [x |-> x, y |-> y, direction |-> direction]
    /\ logged = <<>>
    /\ NoCallYet
    /\ NoPatterns

SafeCallback == \E cmd \in UpperChars : Callback(cmd)
SafeAddCell ==
    \E cx \in CompCoord : \E cy \in CompCoord : Add(Cell(cx, cy), MaxRoverComponents)

NextSafe ==
    \/ SafeCallback /\ UNCHANGED <<before, driverVars, patternVars>>
    \/ SafeAddCell /\ UNCHANGED <<before, driverVars, patternVars>>

SpecSafe == InitSafe /\ [][NextSafe]_vars

----------------------------------------------------------------------------
(* The rover program as the design-patterns exercise sees it: constructed  *)
(* and never called.                                                       *)

roverVars == <<width, height, components, x, y, direction, pre, logged, before,
               driverVars>>

RoverIdle ==
    /\ NoDriver
    /\ RefSetup
    /\ NoCallYet

----------------------------------------------------------------------------
(* NotificationCenter: observers are held in an array in the order of      *)
(* their subscription; notify runs forEach over it.                        *)

\* the subscribe / unsubscribe calls of a run
MaxCalls == 5
\* the notify calls of a run
MaxNotify == 2

\* two observers of the demo, whose update() returns, and an IObserver
\* whose update() throws
ObserverIds == {"email", "sms", "faulty"}
Throws(o) == o = "faulty"

\* the notifications sent
NotificationIds == {"notif-001", "notif-002"}

\* Array.prototype.includes
Includes(arr, o) == \E i \in 1 .. Len(arr) : arr[i] = o

\* Array.prototype.indexOf: the 0-based index of the first o, or -1
IndexOf(arr, o) ==
    IF Includes(arr, o)
    THEN CHOOSE i \in 0 .. (Len(arr) - 1) :
             /\ arr[i + 1] = o
             /\ \A j \in 0 .. (i - 1) : arr[j + 1] # o
    ELSE -1

\* Array.prototype.splice(index, 1)
Splice1(arr, index) ==
    SubSeq(arr, 1, index) \o SubSeq(arr, index + 2, Len(arr))

\* NotificationCenter.subscribe(observer)
SubscribeAlwaysPushes(o) ==
    /\ Len(calls) < MaxCalls
    /\ observers' = Append(observers, o)
    /\ calls' = Append(calls, [call |-> "subscribe", observer |-> o])
    /\ op' = "subscribe"
    /\ args' = <<o>>
    /\ ret' = "void"
    /\ UNCHANGED <<notifications, updates>>

Subscribe(o) ==
    /\ Len(calls) < MaxCalls
    /\ observers' = IF ~Includes(observers, o) THEN Append(observers, o) ELSE observers
    /\ calls' = Append(calls, [call |-> "subscribe", observer |-> o])
    /\ op' = "subscribe"
    /\ args' = <<o>>
    /\ ret' = "void"
    /\ UNCHANGED <<notifications, updates>>

\* NotificationCenter.unsubscribe(observer)
Unsubscribe(o) ==
    LET index == IndexOf(observers, o)
    IN  /\ Len(calls) < MaxCalls
        /\ observers' = IF index > -1 THEN Splice1(observers, index) ELSE observers
        /\ calls' = Append(calls, [call |-> "unsubscribe", observer |-> o])
        /\ op' = "unsubscribe"
        /\ args' = <<o>>
        /\ ret' = "void"
        /\ UNCHANGED <<notifications, updates>>

\* the forEach of notify from element i on: each update call made, and
\* whether it threw into the catch
RECURSIVE DeliverStopsAtThrow(_, _, _)
DeliverStopsAtThrow(arr, i, n) ==
    IF i > Len(arr) THEN <<>>
    ELSE IF Throws(arr[i])
    THEN <<[observer |-> arr[i], notification |-> n, threw |-> TRUE]>>
    ELSE <<[observer |-> arr[i], notification |-> n, threw |-> FALSE]>>
             \o DeliverStopsAtThrow(arr, i + 1, n)

RECURSIVE Deliver(_, _, _)
Deliver(arr, i, n) ==
    IF i > Len(arr) THEN <<>>
    ELSE <<[observer |-> arr[i], notification |-> n, threw |-> Throws(arr[i])]>>
             \o Deliver(arr, i + 1, n)

\* NotificationCenter.notify(notification)
Notify(n) ==
    /\ Len(notifications) < MaxNotify
    /\ notifications' = Append(notifications, n)
    /\ updates' = Deliver(observers, 1, n)
    /\ op' = "notify"
    /\ args' = <<n>>
    /\ ret' = "void"
    /\ UNCHANGED <<observers, calls>>

----------------------------------------------------------------------------
(* SpecObserver: new NotificationCenter(), then subscribe, unsubscribe and *)
(* notify in any order.                                                    *)

InitObserver ==
    /\ RoverIdle
    /\ OnlyObserver
    /\ NoObserver
    /\ op = "new"
    /\ args = <<>>
    /\ ret = "void"

ObserverSubscribe == \E o \in ObserverIds : Subscribe(o)
ObserverUnsubscribe == \E o \in ObserverIds : Unsubscribe(o)
ObserverNotify == \E n \in NotificationIds : Notify(n)

NextObserver ==
    \/ ObserverSubscribe /\ UNCHANGED <<roverVars, exceptObserver>>
    \/ ObserverUnsubscribe /\ UNCHANGED <<roverVars, exceptObserver>>
    \/ ObserverNotify /\ UNCHANGED <<roverVars, exceptObserver>>

SpecObserver == InitObserver /\ [][NextObserver]_vars

----------------------------------------------------------------------------
(* ErrorHandler.executeWithRetry(operation, maxRetries, delay).  The call  *)
(* is followed through its awaits: every operation() call is a step that   *)
(* ends at the return, at a throw or in sleep(delay); the end of the sleep *)
(* is a step.  args holds <<maxRetries, delay>> as they were passed.       *)

\* largest maxRetries passed
MaxRetries == 4

\* the delays passed, in milliseconds
Delays == {1, 100, 1000}

\* what a call of operation() does: it resolves with a value, or rejects
\* with an ApplicationError that is not retryable ("fatal"), with one that
\* is ("retryable"), or with any other error ("error")
OutcomeKinds == {"value", "fatal", "retryable", "error"}

\* the value or error of the k-th call
Outcome(kind, k) == [kind |-> kind, call |-> k]

\* let lastError: unknown, before any assignment
Undefined == [kind |-> "undefined", call |-> 0]

\* error instanceof ApplicationError && !error.isRetryable
IsNotRetryable(e) == e.kind = "fatal"

\* how the promise of executeWithRetry stands
Pending == [settled |-> "pending", value |-> Undefined]
Returned(v) == [settled |-> "returned", value |-> v]
Thrown(e) == [settled |-> "thrown", value |-> e]

\* the call, up to the first test of the for loop
ExecuteWithRetry(m, d) ==
    /\ retryPc = "idle"
    /\ attempt' = 1
    /\ delay' = d
    /\ lastError' = Undefined
    /\ retryPc' = "for"
    /\ operationCalls' = <<>>
    /\ slept' = <<>>
    /\ op' = "executeWithRetry"
    /\ args' = <<m, d>>
    /\ ret' = Pending

\* attempt <= maxRetries holds: the body of the loop, from operation() to
\* the return, the throw, the break with its throw, or the call of sleep
Attempt(kind) ==
    LET o == Outcome(kind, Len(operationCalls) + 1)
    IN  /\ retryPc = "for"
        /\ attempt <= args[1]
        /\ operationCalls' = Append(operationCalls, o)
        /\ IF kind = "value"
           THEN /\ ret' = Returned(o)
                /\ retryPc' = "done"
                /\ UNCHANGED <<lastError, slept>>
           ELSE /\ lastError' = o
                /\ IF IsNotRetryable(o)
                   THEN /\ ret' = Thrown(o)
                        /\ retryPc' = "done"
                        /\ UNCHANGED slept
                   ELSE IF attempt = args[1]
                   THEN /\ ret' = Thrown(o)
                        /\ retryPc' = "done"
                        /\ UNCHANGED slept
                   ELSE /\ ret' = ret
                        /\ retryPc' = "sleeping"
                        /\ slept' = Append(slept, delay)
        /\ UNCHANGED <<attempt, delay, op, args>>

\* attempt <= maxRetries fails: throw lastError after the loop
LoopEnds ==
    /\ retryPc = "for"
    /\ ~(attempt <= args[1])
    /\ ret' = Thrown(lastError)
    /\ retryPc' = "done"
    /\ UNCHANGED <<attempt, delay, lastError, operationCalls, slept, op, args>>

\* the sleep ends: delay *= 2, attempt++
SleepEndsKeepsDelay ==
    /\ retryPc = "sleeping"
    /\ delay' = delay
    /\ attempt' = attempt + 1
    /\ retryPc' = "for"
    /\ UNCHANGED <<lastError, operationCalls, slept, op, args, ret>>

SleepEnds ==
    /\ retryPc = "sleeping"
    /\ delay' = delay * 2
    /\ attempt' = attempt + 1
    /\ retryPc' = "for"
    /\ UNCHANGED <<lastError, operationCalls, slept, op, args, ret>>

----------------------------------------------------------------------------
(* SpecRetry: one call of executeWithRetry with any maxRetries and delay,  *)
(* on an operation that may do anything at every call.                     *)

InitRetry ==
    /\ RoverIdle
    /\ OnlyRetry
    /\ NoRetry
    /\ op = "new"
    /\ args = <<>>
    /\ ret = "void"

RetryCall == \E m \in 0 .. MaxRetries : \E d \in Delays : ExecuteWithRetry(m, d)
RetryAttempt == \E kind \in OutcomeKinds : Attempt(kind)

NextRetry ==
    \/ RetryCall /\ UNCHANGED <<roverVars, exceptRetry>>
    \/ RetryAttempt /\ UNCHANGED <<roverVars, exceptRetry>>
    \/ LoopEnds /\ UNCHANGED <<roverVars, exceptRetry>>
    \/ SleepEnds /\ UNCHANGED <<roverVars, exceptRetry>>

SpecRetry == InitRetry /\ [][NextRetry]_vars

----------------------------------------------------------------------------
(* ReportBuilder and Report.  A call of the builder returns the builder    *)
(* (This), a Report, or throws an ApplicationError; ret holds which.       *)

\* sections a builder is given
MaxSections == 3

\* Validator.isNotEmpty throws: !value || value.trim().length === 0
IsEmptyString(v) == v = "" \/ v = " "

This == [kind |-> "this"]
ThrowsApplicationError(code) == [kind |-> "thrown", code |-> code]

\* ReportBuilder.setTitle(title)
SetTitle(t) ==
    /\ IF IsEmptyString(t)
       THEN /\ ret' = ThrowsApplicationError("VALIDATION_ERROR")
            /\ UNCHANGED title
       ELSE /\ title' = t
            /\ ret' = This
    /\ op' = "setTitle"
    /\ args' = <<t>>
    /\ UNCHANGED <<author, tags, format, sections, sectionOrder, added>>

\* ReportBuilder.setAuthor(author)
SetAuthor(a) ==
    /\ IF IsEmptyString(a)
       THEN /\ ret' = ThrowsApplicationError("VALIDATION_ERROR")
            /\ UNCHANGED author
       ELSE /\ author' = a
            /\ ret' = This
    /\ op' = "setAuthor"
    /\ args' = <<a>>
    /\ UNCHANGED <<title, tags, format, sections, sectionOrder, added>>

\* ReportBuilder.addTag(tag)
AddTag(tag) ==
    /\ IF IsEmptyString(tag)
       THEN /\ ret' = ThrowsApplicationError("VALIDATION_ERROR")
            /\ UNCHANGED tags
       ELSE /\ tags' = IF ~Includes(tags, tag) THEN Append(tags, tag) ELSE tags
            /\ ret' = This
    /\ op' = "addTag"
    /\ args' = <<tag>>
    /\ UNCHANGED <<title, author, format, sections, sectionOrder, added>>

\* ReportBuilder.setFormat(format)
SetFormat(f) ==
    /\ format' = f
    /\ ret' = This
    /\ op' = "setFormat"
    /\ args' = <<f>>
    /\ UNCHANGED <<title, author, tags, sections, sectionOrder, added>>

\* ReportBuilder.addSection(title, content, order?): the optional order is
\* <<>> when it is left out and <<n>> when n is passed;
\* order || this.sectionOrder++ takes the counter when order is undefined
\* or 0
AddSection(t, c, order) ==
    LET truthy == order # <<>> /\ order[1] # 0
    IN  /\ Len(sections) < MaxSections
        /\ sections' = Append(sections,
                              [title |-> t, content |-> c,
                               order |-> IF truthy THEN order[1] ELSE sectionOrder])
        /\ sectionOrder' = IF truthy THEN sectionOrder ELSE sectionOrder + 1
        /\ added' = Append(added, [title |-> t, content |-> c, order |-> order])
        /\ ret' = This
        /\ op' = "addSection"
        /\ args' = <<t, c, order>>
        /\ UNCHANGED <<title, author, tags, format>>

\* ReportBuilder.addExecutiveSummary(content)
AddExecutiveSummary(c) == AddSection("Executive Summary", c, <<0>>)

\* ReportBuilder.addDataAnalysis(content)
AddDataAnalysis(c) == AddSection("Data Analysis", c, <<>>)

\* ReportBuilder.addConclusions(content)
AddConclusions(c) == AddSection("Conclusions", c, <<1000>>)

\* Array.prototype.sort((a, b) => a.order - b.order), which is stable: each
\* element goes behind the elements that do not come after it
RECURSIVE InsertByOrder(_, _)
InsertByOrder(sorted, e) ==
    IF sorted = <<>> THEN <<e>>
    ELSE IF sorted[Len(sorted)].order - e.order <= 0 THEN Append(sorted, e)
    ELSE Append(InsertByOrder(SubSeq(sorted, 1, Len(sorted) - 1), e),
                sorted[Len(sorted)])

RECURSIVE SortByOrder(_)
SortByOrder(arr) ==
    IF arr = <<>> THEN <<>>
    ELSE InsertByOrder(SortByOrder(SubSeq(arr, 1, Len(arr) - 1)), arr[Len(arr)])

\* Report.addSection(section) on a report whose sections are rs: the new
\* sections, or the error of the validator
ReportAddSection(rs, section) ==
    IF IsEmptyString(section.title) \/ IsEmptyString(section.content)
    THEN ThrowsApplicationError("VALIDATION_ERROR")
    ELSE [kind |-> "sections", sections |-> SortByOrder(Append(rs, section))]

\* this.sections.forEach(section => report.addSection(section)) from
\* element i on: the sections of the report, or the error that ends it
RECURSIVE AddAllSections(_, _, _)
AddAllSections(rs, arr, i) ==
    IF i > Len(arr) THEN [kind |-> "sections", sections |-> rs]
    ELSE LET r == ReportAddSection(rs, arr[i])
         IN  IF r.kind = "thrown" THEN r
             ELSE AddAllSections(r.sections, arr, i + 1)

\* what build() returns or throws
BuildSkipsValidation ==
    LET r == AddAllSections(<<>>, sections, 1)
    IN  IF r.kind = "thrown" THEN r
        ELSE [kind |-> "report", title |-> title, author |-> author,
              tags |-> tags, format |-> format, sections |-> r.sections]

BuildResult ==
    IF title = "" \/ author = ""
    THEN ThrowsApplicationError("BUILDER_VALIDATION_ERROR")
    ELSE IF IsEmptyString(title) \/ IsEmptyString(author)
    THEN ThrowsApplicationError("VALIDATION_ERROR")
    ELSE LET r == AddAllSections(<<>>, sections, 1)
         IN  IF r.kind = "thrown" THEN r
             ELSE [kind |-> "report", title |-> title, author |-> author,
                   tags |-> tags, format |-> format, sections |-> r.sections]

\* ReportBuilder.build()
Build ==
    /\ ret' = BuildResult
    /\ op' = "build"
    /\ args' = <<>>
    /\ UNCHANGED builderVars

----------------------------------------------------------------------------
(* SpecBuilder: new ReportBuilder(), then its methods in any order.        *)

\* the strings passed: empty or blank, and proper ones
TitleArgs == {"", "Q4 Report"}
AuthorArgs == {" ", "John Smith"}
TagArgs == {"", "quarterly"}
Formats == {"HTML", "JSON"}
\* title and content of the sections added by addSection
SectionArgs == {<<"Revenue", "text">>, <<"", "text">>, <<"Revenue", " ">>}
\* the optional order of addSection: left out, or 2
OrderArgs == {<<>>, <<2>>}

InitBuilder ==
    /\ RoverIdle
    /\ OnlyBuilder
    /\ NoBuilder
    /\ op = "new"
    /\ args = <<>>
    /\ ret = This

BuilderSetTitle == \E t \in TitleArgs : SetTitle(t)
BuilderSetAuthor == \E a \in AuthorArgs : SetAuthor(a)
BuilderAddTag == \E tag \in TagArgs : AddTag(tag)
BuilderSetFormat == \E f \in Formats : SetFormat(f)
BuilderAddSection ==
    \E tc \in SectionArgs : \E order \in OrderArgs : AddSection(tc[1], tc[2], order)
BuilderAddExecutiveSummary == AddExecutiveSummary("summary")
BuilderAddDataAnalysis == AddDataAnalysis("analysis")
BuilderAddConclusions == AddConclusions("conclusions")

NextBuilder ==
    \/ BuilderSetTitle /\ UNCHANGED <<roverVars, exceptBuilder>>
    \/ BuilderSetAuthor /\ UNCHANGED <<roverVars, exceptBuilder>>
    \/ BuilderAddTag /\ UNCHANGED <<roverVars, exceptBuilder>>
    \/ BuilderSetFormat /\ UNCHANGED <<roverVars, exceptBuilder>>
    \/ BuilderAddSection /\ UNCHANGED <<roverVars, exceptBuilder>>
    \/ BuilderAddExecutiveSummary /\ UNCHANGED <<roverVars, exceptBuilder>>
    \/ BuilderAddDataAnalysis /\ UNCHANGED <<roverVars, exceptBuilder>>
    \/ BuilderAddConclusions /\ UNCHANGED <<roverVars, exceptBuilder>>
    \/ Build /\ UNCHANGED <<roverVars, exceptBuilder>>

SpecBuilder == InitBuilder /\ [][NextBuilder]_vars

----------------------------------------------------------------------------
(* DatabaseService over the adapters. An adapter holds no state of its own: *)
(* connect, disconnect, isConnected and query go to the database object it  *)
(* wraps, so two adapters over one database object share its connection.    *)

\* queries that reach the databases in a run
MaxQueries == 2

\* the adapters the client constructs
Adapters == {"mysqlAdapter", "reportingAdapter", "postgresAdapter"}

\* MySQLAdapter.mysqlDb / PostgreSQLAdapter.pgDb
Wraps(a) ==
    IF a = "postgresAdapter" THEN "modernPostgreSQL" ELSE "legacyMySQL"

\* the sql of the calls
SqlArgs == {"SELECT * FROM users"}

\* MySQLAdapter.isConnected / PostgreSQLAdapter.isConnected
IsConnected(a) == connected[Wraps(a)]

\* a QueryResult
Rows == [kind |-> "rows"]
Void == [kind |-> "void"]

\* mysql_connect / pgConnect, once the timer has fired
Connect(a) == [connected EXCEPT ![Wraps(a)] = TRUE]

\* mysql_disconnect / pgDisconnect
Disconnect(a) == [connected EXCEPT ![Wraps(a)] = FALSE]

\* MySQLAdapter.query / PostgreSQLAdapter.query over mysql_query / pgExecute
Query(a, sql) ==
    IF ~connected[Wraps(a)]
    THEN /\ ret' = ThrowsApplicationError("DATABASE_ERROR")
         /\ UNCHANGED queries
    ELSE /\ queries' = Append(queries, <<Wraps(a), sql>>)
         /\ ret' = Rows

\* executeQuery without its guard
ExecuteQuerySkipsCheck(sql) ==
    /\ Len(queries) < MaxQueries
    /\ Query(database, sql)
    /\ queriesBefore' = queries
    /\ op' = "executeQuery"
    /\ args' = <<sql>>
    /\ UNCHANGED <<database, connected, switchPc, newDatabase, previous>>

\* DatabaseService.executeQuery(sql)
ExecuteQuery(sql) ==
    /\ Len(queries) < MaxQueries
    /\ IF ~IsConnected(database)
       THEN /\ ret' = ThrowsApplicationError("SERVICE_ERROR")
            /\ UNCHANGED queries
       ELSE Query(database, sql)
    /\ queriesBefore' = queries
    /\ op' = "executeQuery"
    /\ args' = <<sql>>
    /\ UNCHANGED <<database, connected, switchPc, newDatabase, previous>>

\* DatabaseService.switchDatabase(newDatabase), up to its first await:
\* disconnect() has cleared the flag / connect() waits for its timer
SwitchDatabase(newDb) ==
    /\ switchPc = "idle"
    /\ previous' = [database |-> database, connected |-> IsConnected(database)]
    /\ newDatabase' = newDb
    /\ IF IsConnected(database)
       THEN /\ connected' = Disconnect(database)
            /\ switchPc' = "disconnecting"
            /\ UNCHANGED database
       ELSE /\ database' = newDb
            /\ switchPc' = "connecting"
            /\ UNCHANGED connected
    /\ queriesBefore' = queries
    /\ op' = "switchDatabase"
    /\ args' = <<newDb>>
    /\ ret' = Void
    /\ UNCHANGED queries

\* switchDatabase after await this.database.disconnect()
Disconnected ==
    /\ switchPc = "disconnecting"
    /\ database' = newDatabase
    /\ switchPc' = "connecting"
    /\ op' = "switchDatabase"
    /\ args' = <<newDatabase>>
    /\ ret' = Void
    /\ UNCHANGED <<connected, newDatabase, previous, queries, queriesBefore>>

\* switchDatabase after await this.database.connect()
Connected ==
    /\ switchPc = "connecting"
    /\ connected' = Connect(database)
    /\ switchPc' = "idle"
    /\ op' = "switchDatabase"
    /\ args' = <<newDatabase>>
    /\ ret' = Void
    /\ UNCHANGED <<database, newDatabase, previous, queries, queriesBefore>>

\* await adapter.connect() by the client
AdapterConnect(a) ==
    /\ switchPc = "idle"
    /\ connected' = Connect(a)
    /\ queriesBefore' = queries
    /\ op' = "connect"
    /\ args' = <<a>>
    /\ ret' = Void
    /\ UNCHANGED <<database, switchPc, newDatabase, previous, queries>>

\* await adapter.disconnect() by the client
AdapterDisconnect(a) ==
    /\ switchPc = "idle"
    /\ connected' = Disconnect(a)
    /\ queriesBefore' = queries
    /\ op' = "disconnect"
    /\ args' = <<a>>
    /\ ret' = Void
    /\ UNCHANGED <<database, switchPc, newDatabase, previous, queries>>

----------------------------------------------------------------------------
(* SpecDatabase: a DatabaseService constructed over any adapter, its       *)
(* methods and the adapters called by a client that awaits every call of   *)
(* connect, disconnect and switchDatabase; executeQuery may be called      *)
(* while a switch waits.                                                   *)

InitDatabase ==
    /\ RoverIdle
    /\ OnlyDatabase
    /\ database \in Adapters
    /\ connected = [d \in Databases |-> FALSE]
    /\ switchPc = "idle"
    /\ newDatabase = "none"
    /\ previous = [database |-> "none", connected |-> FALSE]
    /\ queries = <<>>
    /\ queriesBefore = <<>>
    /\ op = "new"
    /\ args = <<>>
    /\ ret = Void

DatabaseExecuteQuery == \E sql \in SqlArgs : ExecuteQuery(sql)
DatabaseSwitch == switchPc = "idle" /\ \E newDb \in Adapters : SwitchDatabase(newDb)
DatabaseConnect == switchPc = "idle" /\ \E a \in Adapters : AdapterConnect(a)
DatabaseDisconnect == switchPc = "idle" /\ \E a \in Adapters : AdapterDisconnect(a)

NextDatabase ==
    \/ DatabaseExecuteQuery /\ UNCHANGED <<roverVars, exceptDatabase>>
    \/ DatabaseSwitch /\ UNCHANGED <<roverVars, exceptDatabase>>
    \/ Disconnected /\ UNCHANGED <<roverVars, exceptDatabase>>
    \/ Connected /\ UNCHANGED <<roverVars, exceptDatabase>>
    \/ DatabaseConnect /\ UNCHANGED <<roverVars, exceptDatabase>>
    \/ DatabaseDisconnect /\ UNCHANGED <<roverVars, exceptDatabase>>

SpecDatabase == InitDatabase /\ [][NextDatabase]_vars

----------------------------------------------------------------------------
(* MenuService: start() runs displayMenuAndWaitForInput in a loop; the     *)
(* line the user types is a sequence of characters, parsed by parseInt.    *)

\* items a menu can hold
MaxItems == 2
\* longest line the user types at the menu
MaxChoice == 3
\* times the menu is displayed in a run
MaxCycles == 2

\* the ids of the items of DesignPatternsApplication.setupMenu, in order
ItemIds == <<"observer_demo", "strategy_demo", "factory_demo", "builder_demo",
             "adapter_demo", "decorator_demo">>

\* the characters the user types: digits, a sign, a blank and a letter
ChoiceChars == {"0", "1", "2", "-", " ", "a"}

Choices == UNION {[1 .. n -> ChoiceChars] : n \in 0 .. MaxChoice}

IsDigit(c) == c \in {"0", "1", "2"}

DigitValue(c) ==
    CASE c = "0" -> 0
      [] c = "1" -> 1
      [] c = "2" -> 2

\* the longest prefix of str made of digits
RECURSIVE DigitPrefix(_)
DigitPrefix(str) ==
    IF str # <<>> /\ IsDigit(Head(str))
    THEN <<Head(str)>> \o DigitPrefix(Tail(str))
    ELSE <<>>

\* the value of a sequence of digits in radix 10
RECURSIVE Decimal(_)
Decimal(ds) ==
    IF ds = <<>> THEN 0
    ELSE 10 * Decimal(SubSeq(ds, 1, Len(ds) - 1)) + DigitValue(ds[Len(ds)])

\* a number or NaN
NaN == [nan |-> TRUE, value |-> 0]
Num(v) == [nan |-> FALSE, value |-> v]

\* parseInt(string): leading white space skipped, an optional sign, then
\* the longest prefix of digits; whatever follows is ignored
ParseInt(str) ==
    LET t == TrimStart(str)
        negative == t # <<>> /\ Head(t) = "-"
        body == IF negative THEN Tail(t) ELSE t
        digits == DigitPrefix(body)
    IN  IF digits = <<>> THEN NaN
        ELSE Num(IF negative THEN 0 - Decimal(digits) ELSE Decimal(digits))

\* MenuService.setMenu(items)
SetMenu(items) ==
    /\ menuPc = "new"
    /\ currentMenu' = items
    /\ op' = "setMenu"
    /\ args' = <<items>>
    /\ ret' = Void
    /\ UNCHANGED <<isRunning, menuPc, choice, shown, ran, handled>>

\* MenuService.start(), up to the test of the while loop
Start ==
    /\ menuPc = "new"
    /\ isRunning' = TRUE
    /\ menuPc' = "while"
    /\ op' = "start"
    /\ args' = <<>>
    /\ ret' = Pending
    /\ UNCHANGED <<currentMenu, choice, shown, ran, handled>>

\* while (this.isRunning): the menu is displayed and getUserInput awaited,
\* or start() returns
While ==
    /\ menuPc = "while"
    /\ IF isRunning
       THEN /\ shown < MaxCycles
            /\ shown' = shown + 1
            /\ choice' = <<>>
            /\ ran' = <<>>
            /\ handled' = <<>>
            /\ menuPc' = "input"
            /\ UNCHANGED ret
       ELSE /\ menuPc' = "returned"
            /\ ret' = Returned(Undefined)
            /\ UNCHANGED <<shown, choice, ran, handled>>
    /\ UNCHANGED <<isRunning, currentMenu, op, args>>

\* MenuService.stop()
Stop == isRunning' = FALSE

\* getUserInput resolves with the trimmed line; handleUserChoice(choice)
\* up to its first await
HandleUserChoice(line) ==
    /\ menuPc = "input"
    /\ choice' = Trim(line)
    /\ LET choiceNum == ParseInt(Trim(choice'))
       IN  IF ~choiceNum.nan /\ choiceNum.value = 0
           THEN /\ Stop
                /\ menuPc' = "while"
           ELSE IF choiceNum.nan \/ choiceNum.value < 1
                       \/ choiceNum.value > Len(currentMenu)
           THEN /\ menuPc' = "sleep 1500"
                /\ UNCHANGED isRunning
           ELSE /\ menuPc' = "action"
                /\ UNCHANGED isRunning
    /\ UNCHANGED <<currentMenu, shown, ran, handled, op, args, ret>>

\* await this.sleep(1500) after 'Invalid choice', await this.sleep(1000)
\* at the end of the catch block of start()
Sleep ==
    /\ menuPc \in {"sleep 1500", "sleep 1000"}
    /\ menuPc' = "while"
    /\ UNCHANGED <<isRunning, currentMenu, choice, shown, ran, handled, op, args,
                   ret>>

\* the item handleUserChoice selects
SelectedItem == currentMenu[ParseInt(Trim(choice)).value]

\* await selectedItem.action() settles: a thrown error goes to handleError
Action(kind) ==
    /\ menuPc = "action"
    /\ ran' = Append(ran, [id |-> SelectedItem, cycle |-> shown, outcome |-> kind])
    /\ handled' = IF kind = "value" THEN handled
                  ELSE Append(handled, <<"MenuItem", SelectedItem>>)
    /\ menuPc' = "continue"
    /\ UNCHANGED <<isRunning, currentMenu, choice, shown, op, args, ret>>

\* waitForUserToContinue: getUserInput('') resolves
WaitForUserToContinue ==
    /\ menuPc = "continue"
    /\ menuPc' = "while"
    /\ UNCHANGED <<isRunning, currentMenu, choice, shown, ran, handled, op, args,
                   ret>>

\* the catch block of start(): an error thrown by getUserInput escapes
\* displayMenuAndWaitForInput
Catch(kind) ==
    /\ menuPc \in {"input", "continue"}
    /\ handled' = Append(handled, <<"MenuService.start", kind>>)
    /\ IF IsNotRetryable(Outcome(kind, shown))
       THEN /\ menuPc' = "returned"
            /\ ret' = Returned(Undefined)
       ELSE /\ menuPc' = "sleep 1000"
            /\ UNCHANGED ret
    /\ UNCHANGED <<isRunning, currentMenu, choice, shown, ran, op, args>>

----------------------------------------------------------------------------
(* SpecMenu: a MenuService given a menu and started; the user types any    *)
(* line, a selected action returns or throws any error, and the reads of   *)
(* standard input may throw any error.                                     *)

\* the errors a call may throw
ErrorKinds == OutcomeKinds \ {"value"}

\* the menus setMenu is given: the first items of the application's menu
Menus == {SubSeq(ItemIds, 1, n) : n \in 0 .. MaxItems}

InitMenu ==
    /\ RoverIdle
    /\ OnlyMenu
    /\ NoMenu
    /\ op = "new"
    /\ args = <<>>
    /\ ret = Void

MenuSetMenu == menuPc = "new" /\ \E items \in Menus : SetMenu(items)
MenuChoice == menuPc = "input" /\ \E line \in Choices : HandleUserChoice(line)
MenuAction == menuPc = "action" /\ \E kind \in OutcomeKinds : Action(kind)
MenuCatch == menuPc \in {"input", "continue"} /\ \E kind \in ErrorKinds : Catch(kind)

NextMenu ==
    \/ MenuSetMenu /\ UNCHANGED <<roverVars, exceptMenu>>
    \/ Start /\ UNCHANGED <<roverVars, exceptMenu>>
    \/ While /\ UNCHANGED <<roverVars, exceptMenu>>
    \/ MenuChoice /\ UNCHANGED <<roverVars, exceptMenu>>
    \/ Sleep /\ UNCHANGED <<roverVars, exceptMenu>>
    \/ MenuAction /\ UNCHANGED <<roverVars, exceptMenu>>
    \/ WaitForUserToContinue /\ UNCHANGED <<roverVars, exceptMenu>>
    \/ MenuCatch /\ UNCHANGED <<roverVars, exceptMenu>>

SpecMenu == InitMenu /\ [][NextMenu]_vars

----------------------------------------------------------------------------
(* Vocabulary of the properties, stated on the grid's fields directly *)

\* (px, py) lies in [0, width) x [0, height)
InGrid(px, py) == 0 <= px /\ px < width /\ 0 <= py /\ py < height

\* some component of the grid is an Obstacle placed at (px, py)
HoldsObstacle(px, py) ==
    \E i \in DOMAIN components :
        /\ components[i].kind = "Obstacle"
        /\ components[i].x = px
        /\ components[i].y = py

\* the cell the last call's rover faced when the call started
Candidate == Move(pre.direction, pre.x, pre.y)

\* the unit vector of a heading, and its quarter turns
UnitVector(d) == Move(d, 0, 0)
CounterClockwise(v) == <<0 - v[2], v[1]>>
Clockwise(v) == <<v[2], 0 - v[1]>>

----------------------------------------------------------------------------
(* Properties of the rover (Spec) *)

\* C1: after any executed moveForward(), from any start state on any grid,
\* the rover's position is within the grid's bounds and not on the
\* coordinate of a registered obstacle.
C1_AfterMoveInsideAndFree ==
    op = "moveForward" => InGrid(x, y) /\ ~HoldsObstacle(x, y)

\* C2: when the cell one unit ahead is out of bounds or holds an obstacle,
\* moveForward() leaves x, y and the heading unchanged.
C2_RejectedMoveChangesNothing ==
    (/\ op = "moveForward"
     /\ (~InGrid(Candidate[1], Candidate[2])
            \/ HoldsObstacle(Candidate[1], Candidate[2])))
        => RoverState = pre

\* a rover at (1,0) facing North with an obstacle at (1,1) has stayed put
C2_Witness ==
    /\ op = "moveForward"
    /\ pre = [x |-> 1, y |-> 0, direction |-> "North"]
    /\ InGrid(1, 1)
    /\ HoldsObstacle(1, 1)
    /\ RoverState = pre
    /\ Len(logged) = 1

\* C3: when the candidate (nx, ny) = heading.move(x, y) is within bounds and
\* not blocked, moveForward() sets the position to exactly (nx, ny) and
\* leaves the heading unchanged.
C3_FreeMoveCommitsCandidate ==
    (/\ op = "moveForward"
     /\ InGrid(Candidate[1], Candidate[2])
     /\ ~HoldsObstacle(Candidate[1], Candidate[2]))
        => /\ x = Candidate[1]
           /\ y = Candidate[2]
           /\ direction = pre.direction

\* a rover has moved North from (0,0) to (0,1) past a plain cell at (0,1)
C3_Witness ==
    /\ op = "moveForward"
    /\ pre = [x |-> 0, y |-> 0, direction |-> "North"]
    /\ components = <<Cell(0, 1)>>
    /\ x = 0
    /\ y = 1
    /\ direction = "North"

\* C9: turnLeft() and turnRight() are enabled in every state, set the
\* heading to heading.left() and heading.right() and leave (x, y) unchanged;
\* the position differs from the one before the last call only after a
\* moveForward() that was not rejected.
C9_TurnsKeepPosition ==
    /\ ENABLED TurnLeft
    /\ ENABLED TurnRight
    /\ op = "turnLeft" =>
          direction = Left(pre.direction) /\ x = pre.x /\ y = pre.y
    /\ op = "turnRight" =>
          direction = Right(pre.direction) /\ x = pre.x /\ y = pre.y
    /\ (x # pre.x \/ y # pre.y) => op = "moveForward" /\ logged = <<>>

\* a rover outside the grid, facing further out, has turned left in place
C9_Witness ==
    /\ op = "turnLeft"
    /\ ~InGrid(x, y)
    /\ ~InGrid(Candidate[1], Candidate[2])
    /\ direction = Left(pre.direction)
    /\ direction # pre.direction
    /\ x = pre.x
    /\ y = pre.y

\* C10: the heading is always one of North, East, South, West and differs
\* from the heading before the last call only after turnLeft() or
\* turnRight(), never after moveForward() or report().
C10_HeadingOneOfFour ==
    /\ direction \in {"North", "East", "South", "West"}
    /\ direction # pre.direction => op \in {"turnLeft", "turnRight"}
    /\ op \in {"moveForward", "report"} => direction = pre.direction

\* a rejected move has left the heading as it was
C10_Witness ==
    /\ op = "moveForward"
    /\ Len(logged) = 1
    /\ direction = pre.direction
    /\ direction \in {"North", "East", "South", "West"}

----------------------------------------------------------------------------
(* Properties of Direction (SpecDirection) *)

\* C4: left() maps North to West, West to South, South to East and East to
\* North: the heading whose unit vector is the receiver's turned 90 degrees
\* counter-clockwise.
C4_LeftIsCounterClockwise ==
    op = "left" =>
        /\ args[1] = "North" => ret = "West"
        /\ args[1] = "West"  => ret = "South"
        /\ args[1] = "South" => ret = "East"
        /\ args[1] = "East"  => ret = "North"
        /\ UnitVector(ret) = CounterClockwise(UnitVector(args[1]))

\* South.left() has returned East
C4_Witness == op = "left" /\ args = <<"South">> /\ ret = "East"

\* C5: right() maps North to East, East to South, South to West and West to
\* North: the heading whose unit vector is the receiver's turned 90 degrees
\* clockwise.
C5_RightIsClockwise ==
    op = "right" =>
        /\ args[1] = "North" => ret = "East"
        /\ args[1] = "East"  => ret = "South"
        /\ args[1] = "South" => ret = "West"
        /\ args[1] = "West"  => ret = "North"
        /\ UnitVector(ret) = Clockwise(UnitVector(args[1]))

\* East.right() has returned South
C5_Witness == op = "right" /\ args = <<"East">> /\ ret = "South"

\* C6: move(x, y) returns (x, y+1) for North, (x, y-1) for South, (x+1, y)
\* for East and (x-1, y) for West: one axis changes, by one.
C6_MoveOneUnitAhead ==
    op = "move" =>
        /\ args[1] = "North" => ret = <<args[2], args[3] + 1>>
        /\ args[1] = "South" => ret = <<args[2], args[3] - 1>>
        /\ args[1] = "East"  => ret = <<args[2] + 1, args[3]>>
        /\ args[1] = "West"  => ret = <<args[2] - 1, args[3]>>
        /\ (ret[1] = args[2]) # (ret[2] = args[3])

\* West.move(-3, 2) has returned (-4, 2)
C6_Witness == op = "move" /\ args = <<"West", -3, 2>> /\ ret = <<-4, 2>>

----------------------------------------------------------------------------
(* Properties of Grid (SpecGrid) *)

\* C7: withinBounds(x, y) is true exactly when 0 <= x < width and
\* 0 <= y < height; x = width, y = height and negative coordinates are out
\* of bounds.
C7_WithinBoundsHalfOpen ==
    op = "withinBounds" =>
        /\ ret = (/\ 0 <= args[1]
                  /\ args[1] < width
                  /\ 0 <= args[2]
                  /\ args[2] < height)
        /\ (args[1] = width \/ args[2] = height) => ret = FALSE
        /\ (args[1] < 0 \/ args[2] < 0) => ret = FALSE

\* withinBounds(width, 0) has returned false
C7_Witness ==
    /\ op = "withinBounds"
    /\ args = <<width, 0>>
    /\ ret = FALSE

\* C8: isBlocked(x, y) is true exactly when some added component is an
\* obstacle at (x, y); plain cells never block, in whatever order the
\* components were added.
C8_BlockedIffObstacle ==
    op = "isBlocked" =>
        /\ ret = HoldsObstacle(args[1], args[2])
        /\ (\A i \in DOMAIN components : components[i].kind = "Cell")
              => ret = FALSE

\* a cell and then an obstacle were added at (1,0): (1,0) is blocked
C8_Witness ==
    /\ op = "isBlocked"
    /\ components = <<Cell(1, 0), Obstacle(1, 0)>>
    /\ args = <<1, 0>>
    /\ ret = TRUE

----------------------------------------------------------------------------
(* Vocabulary of the properties of a run *)

\* the rover of the entry points when it is constructed
StartState == [x |-> 0, y |-> 0, direction |-> "North"]

IsKey(c) == c \in {"M", "L", "R"}
NotKey(c) == ~IsKey(c)

\* the rover s after the operation of character c (M, L, R; any other: s)
Applied(s, c) ==
    IF c = "L" THEN [s EXCEPT !.direction = Left(s.direction)]
    ELSE IF c = "R" THEN [s EXCEPT !.direction = Right(s.direction)]
    ELSE IF c = "M"
    THEN LET n == Move(s.direction, s.x, s.y)
         IN  IF InGrid(n[1], n[2]) /\ ~HoldsObstacle(n[1], n[2])
             THEN [s EXCEPT !.x = n[1], !.y = n[2]]
             ELSE s
    ELSE s

\* the operations of the characters cs applied to s from left to right
RECURSIVE AppliedAll(_, _)
AppliedAll(s, cs) ==
    IF cs = <<>> THEN s ELSE AppliedAll(Applied(s, Head(cs)), Tail(cs))

\* the console lines those operations write, without the final report
RECURSIVE LinesOf(_, _)
LinesOf(s, cs) ==
    IF cs = <<>> THEN <<>>
    ELSE LET c == Head(cs)
             n == Move(s.direction, s.x, s.y)
             line == IF NotKey(c) THEN <<InvalidLine(c)>>
                     ELSE IF c = "M" /\ Applied(s, c) = s THEN <<BlockedLine(n[1], n[2])>>
                     ELSE <<>>
         IN  line \o LinesOf(Applied(s, c), Tail(cs))

\* the characters of the line that forEach has been through
Processed == SubSeq(sequence, 1, idx - 1)

\* kinds of console lines
IsBlockedLine(l) == l[1] = "Movement blocked at ("
IsInvalidLine(l) == l[1] = "Invalid command: "
IsFinalLine(l) == l[1] \in {"Final rover state:", "Rover is at ("}

\* two console lines are the same line
SameLine(l1, l2) == l1[1] = l2[1] /\ Len(l1) = Len(l2) /\ l1 = l2
SameLines(ls1, ls2) ==
    /\ Len(ls1) = Len(ls2)
    /\ \A i \in 1 .. Len(ls1) : SameLine(ls1[i], ls2[i])

\* a command of the trace that was a rejected move
Rejected(t) == t.cmd = "M" /\ t.after = t.before

Running == pc \in {"forEach", "closed"}

----------------------------------------------------------------------------
(* Properties of a run (SpecDriver) *)

\* C11: the characters are processed in input order, one at a time: the
\* commands executed so far are those of the recognised characters gone
\* through, one each and in their order, each starts from the state the one
\* before left, and the rover is where applying the operations from left to
\* right puts it, at every step and at the end.
C11_CommandsInInputOrder ==
    Running =>
        /\ [i \in 1 .. Len(trace) |-> trace[i].cmd] = SelectSeq(Processed, IsKey)
        /\ \A i \in 1 .. Len(trace) :
              /\ trace[i].before = IF i = 1 THEN StartState ELSE trace[i - 1].after
              /\ trace[i].after = Applied(trace[i].before, trace[i].cmd)
        /\ RoverState = AppliedAll(StartState, Processed)
        /\ pc = "closed" =>
              /\ Processed = sequence
              /\ RoverState = AppliedAll(StartState, sequence)

\* the line "MRM" has been run: the rover is at (1,1) facing East
C11_Witness ==
    /\ pc = "closed"
    /\ answer = <<"M", "R", "M">>
    /\ Len(trace) = 3
    /\ RoverState = [x |-> 1, y |-> 1, direction |-> "East"]

\* C12: a rejected move does not stop the run: the next step is enabled
\* after it, and a run with a rejected move still ends with every character
\* gone through and every later command executed with its normal effect.
C12_RunGoesOnAfterRejectedMove ==
    /\ (pc = "forEach" /\ op = "moveForward" /\ logged # <<>>) =>
          /\ ENABLED NextDriver
          /\ idx - 1 = Len(trace) + Len(SelectSeq(console, IsInvalidLine))
    /\ (pc = "closed" /\ \E i \in 1 .. Len(trace) : Rejected(trace[i])) =>
          /\ Len(trace) = Len(SelectSeq(sequence, IsKey))
          /\ \A i \in 1 .. Len(trace) : \A j \in (i + 1) .. Len(trace) :
                Rejected(trace[i]) =>
                    trace[j].after = Applied(trace[j].before, trace[j].cmd)

\* the line "MMRMMLM" has been run: the move into the obstacle at (2,2) was
\* rejected, the turn and the move after it took effect
C12_Witness ==
    /\ pc = "closed"
    /\ answer = ObstacleLine
    /\ Len(trace) = 7
    /\ Rejected(trace[5])
    /\ trace[7].before = [x |-> 1, y |-> 2, direction |-> "North"]
    /\ RoverState = [x |-> 1, y |-> 3, direction |-> "North"]
    /\ \E i \in 1 .. Len(console) : SameLine(console[i], BlockedLine(2, 2))

\* C13: every input character other than M, L or R (in either case) is
\* reported as invalid: a finished run of index.ts has written one
\* "Invalid command" line for each such character of the line typed.
C13_EveryOtherCharacterReported ==
    (pc = "closed" /\ driver = "index.ts") =>
        Len(SelectSeq(console, IsInvalidLine))
            = Cardinality({i \in 1 .. Len(answer) :
                              answer[i] \notin {"M", "L", "R", "m", "l", "r"}})

\* C13, amended: white space at the ends of the line is removed unreported;
\* every character of the trimmed, upper-cased line other than M, L or R is
\* reported as invalid in its upper case, no command is executed for it, the
\* rover is left as it was, and the run goes on with the next character.
C13_InvalidReportedAndSkipped ==
    /\ driver = "index.ts" /\ Running => sequence = ToUpperCase(Trim(answer))
    /\ pc = "forEach" => ENABLED NextDriver
    /\ op = "console.log" =>
          /\ NotKey(args[1])
          /\ args[1] = sequence[idx - 1]
          /\ SameLines(logged, <<InvalidLine(args[1])>>)
          /\ RoverState = pre
    /\ Running =>
          /\ SameLines(SelectSeq(console, IsInvalidLine),
                       [i \in 1 .. Len(SelectSeq(Processed, NotKey)) |->
                           InvalidLine(SelectSeq(Processed, NotKey)[i])])
          /\ Len(trace) = Len(SelectSeq(Processed, IsKey))
          /\ RoverState = AppliedAll(StartState, SelectSeq(Processed, IsKey))

\* the line " xM" has been run: X was reported, the blank was not, M moved
C13_Witness ==
    /\ pc = "closed"
    /\ answer = <<" ", "x", "M">>
    /\ sequence = <<"X", "M">>
    /\ Len(console) = 2
    /\ SameLine(console[1], InvalidLine("X"))
    /\ Len(trace) = 1
    /\ RoverState = [x |-> 0, y |-> 1, direction |-> "North"]

\* the letters a character may be replaced by without changing its key
CaseSwaps(c) ==
    IF c \in {"m", "M"} THEN {"m", "M"}
    ELSE IF c \in {"l", "L"} THEN {"l", "L"}
    ELSE IF c \in {"r", "R"} THEN {"r", "R"}
    ELSE {c}

\* the lines that differ from str in the case of some m, l, r
RECURSIVE CaseVariants(_)
CaseVariants(str) ==
    IF str = <<>> THEN {<<>>}
    ELSE {<<h>> \o t : h \in CaseSwaps(Head(str)), t \in CaseVariants(Tail(str))}

\* C14: index.ts is case-insensitive: a finished run has the final position
\* and heading and the console lines that the run of every line differing
\* from its line only in the case of m, l, r has.
C14_CaseInsensitive ==
    (pc = "closed" /\ driver = "index.ts") =>
        \A v \in CaseVariants(answer) :
            LET sq == ToUpperCase(Trim(v))
                final == AppliedAll(StartState, sq)
            IN  /\ RoverState = final
                /\ SameLines(console,
                             Append(LinesOf(StartState, sq),
                                    <<"Final rover state:",
                                      ReportString(final.x, final.y, final.direction)>>))

\* the line "lmR" has been run, as "LMR" would: a rejected move to (-1,0),
\* and the rover faces North again
C14_Witness ==
    /\ pc = "closed"
    /\ answer = <<"l", "m", "R">>
    /\ <<"L", "M", "R">> \in CaseVariants(answer)
    /\ RoverState = [x |-> 0, y |-> 0, direction |-> "North"]
    /\ Len(console) = 2
    /\ SameLine(console[1], BlockedLine(-1, 0))

\* C17: on the 10x10 grid with obstacles at (2,2) and (3,5), the rover
\* started at (0,0) facing North and given M,M,R,M,L,M is at (0,1), (0,2),
\* facing East, at (1,2), facing North and at (1,3) in turn, no move is
\* rejected, and its report is "Rover is at (1, 3) facing N".
ExamplePath ==
    << [x |-> 0, y |-> 0, direction |-> "North"],
       [x |-> 0, y |-> 1, direction |-> "North"],
       [x |-> 0, y |-> 2, direction |-> "North"],
       [x |-> 0, y |-> 2, direction |-> "East"],
       [x |-> 1, y |-> 2, direction |-> "East"],
       [x |-> 1, y |-> 2, direction |-> "North"],
       [x |-> 1, y |-> 3, direction |-> "North"] >>

C17_ExampleRun ==
    (Running /\ sequence = <<"M", "M", "R", "M", "L", "M">>) =>
        /\ width = 10 /\ height = 10
        /\ components = <<Obstacle(2, 2), Obstacle(3, 5)>>
        /\ RoverState = ExamplePath[idx]
        /\ SelectSeq(console, IsBlockedLine) = <<>>
        /\ pc = "closed" =>
              /\ op = "report"
              /\ ret = <<"Rover is at (", 1, ", ", 3, ") facing ", "N">>
              /\ SameLine(console[Len(console)], FinalLine(ret))

\* index.js has finished: the rover is at (1,3) facing North
C17_Witness ==
    /\ pc = "closed"
    /\ driver = "index.js"
    /\ sequence = <<"M", "M", "R", "M", "L", "M">>
    /\ RoverState = [x |-> 1, y |-> 3, direction |-> "North"]
    /\ Len(console) = 1
    /\ Len(trace) = 6

----------------------------------------------------------------------------
(* Properties of the program, called directly or run (SpecProgram) *)

\* C15: every core operation is total: turnLeft, turnRight, moveForward and
\* report are enabled in every rover state on every grid; a run has no state
\* it cannot leave before it is closed, goes through the characters one by
\* one without passing the end, and is closed only with every character
\* gone through and the final report as its last console line.
C15_OperationsTotal ==
    /\ ENABLED TurnLeft
    /\ ENABLED TurnRight
    /\ ENABLED MoveForward
    /\ ENABLED Report
    /\ pc \in {"api", "question", "forEach", "closed"}
    /\ pc = "question" => \A a \in Inputs : ENABLED Question(a)
    /\ pc = "forEach" =>
          /\ ENABLED NextDriver
          /\ idx \in 1 .. (Len(sequence) + 1)
          /\ idx - 1 = Len(trace) + Len(SelectSeq(console, IsInvalidLine))
    /\ pc = "closed" =>
          /\ idx = Len(sequence) + 1
          /\ op = "report"
          /\ SameLine(console[Len(console)], FinalLine(ReportString(x, y, direction)))

\* a run whose two moves were both rejected has been closed
C15_Witness ==
    /\ pc = "closed"
    /\ answer = <<"L", "M", "M">>
    /\ Len(trace) = 3
    /\ \A i \in 2 .. 3 : Rejected(trace[i])
    /\ Len(console) = 3

\* C16: moveForward() writes one movement-blocked line naming the rejected
\* target (nx, ny) exactly when the move is rejected and nothing when it
\* succeeds; in a run the movement-blocked lines are as many as the rejected
\* moves, and a closed run has one final-state report, its last line.
C16_BlockedLinePerRejectedMove ==
    /\ op = "moveForward" =>
          IF ~InGrid(Candidate[1], Candidate[2]) \/ HoldsObstacle(Candidate[1], Candidate[2])
          THEN SameLines(logged, <<BlockedLine(Candidate[1], Candidate[2])>>)
          ELSE logged = <<>>
    /\ Running =>
          Len(SelectSeq(console, IsBlockedLine))
              = Cardinality({i \in 1 .. Len(trace) : Rejected(trace[i])})
    /\ pc = "forEach" => SelectSeq(console, IsFinalLine) = <<>>
    /\ pc = "closed" =>
          /\ Len(SelectSeq(console, IsFinalLine)) = 1
          /\ IsFinalLine(console[Len(console)])

\* the line "MLM" has been run: one move made, one rejected at (-1,1)
C16_Witness ==
    /\ pc = "closed"
    /\ answer = <<"M", "L", "M">>
    /\ Len(console) = 2
    /\ SameLine(console[1], BlockedLine(-1, 1))
    /\ IsFinalLine(console[2])
    /\ RoverState = [x |-> 0, y |-> 1, direction |-> "West"]

----------------------------------------------------------------------------
(* Properties of rotation and translation *)

\* C18: rotation is self-inverse: turnLeft() followed by turnRight(), or
\* turnRight() followed by turnLeft(), leaves the rover as it was before the
\* pair, so H.left().right() and H.right().left() are H for every heading.
C18_TurnsUndoEachOther ==
    /\ (op = "turnRight" /\ before.op = "turnLeft") =>
          /\ RoverState = before.pre
          /\ Right(Left(before.pre.direction)) = direction
    /\ (op = "turnLeft" /\ before.op = "turnRight") =>
          /\ RoverState = before.pre
          /\ Left(Right(before.pre.direction)) = direction

\* a rover that faced South has turned left and then right: it faces South
C18_Witness ==
    /\ op = "turnRight"
    /\ before.op = "turnLeft"
    /\ before.pre.direction = "South"
    /\ pre.direction = "East"
    /\ RoverState = before.pre

\* C19: left() four times, or right() four times, returns the original
\* heading; one, two or three of the same rotation do not.
C19_FourTurnsIdentity ==
    (/\ op \in {"left", "right", "chain"}
     /\ \A i \in 1 .. Len(ChainMethods) : ChainMethods[i] = ChainMethods[1]) =>
        /\ Len(ChainMethods) = 4 => ret = args[1]
        /\ Len(ChainMethods) \in 1 .. 3 => ret # args[1]

\* East.left().left().left().left() has returned East
C19_Witness ==
    /\ op = "chain"
    /\ args = <<"East", "left", "left", "left", "left">>
    /\ ret = "East"

\* C20: H.move(x, y) followed by the move of the opposite heading, H rotated
\* twice either way, on the result returns (x, y).
C20_MoveThenBack ==
    op = "moveBack" => ret = <<args[2], args[3]>>

\* North.move(1, -2), then South.move on the result, has returned (1, -2)
C20_Witness ==
    /\ op = "moveBack"
    /\ args = <<"North", 1, -2, "left">>
    /\ ret = <<1, -2>>

----------------------------------------------------------------------------
(* Properties of report, the commands and the grid's frame *)

\* the letter the report shows for a heading
HeadingLetter(d) ==
    CASE d = "North" -> "N"
      [] d = "East"  -> "E"
      [] d = "South" -> "S"
      [] d = "West"  -> "W"

\* C21: report() returns exactly "Rover is at (x, y) facing H" for the
\* rover's current x and y and the letter N, E, S or W of its heading,
\* changes no rover or grid state, and returns the same string again when it
\* is called again with no command in between.
C21_ReportExactAndPure ==
    [][op' = "report" =>
          /\ ret' = <<"Rover is at (", x, ", ", y, ") facing ", HeadingLetter(direction)>>
          /\ UNCHANGED <<width, height, components, x, y, direction>>
          /\ op = "report" => ret' = ret]_vars

\* report() was called twice in a row on a rover at (1,0) facing West
C21_Witness ==
    /\ op = "report"
    /\ before.op = "report"
    /\ ret = <<"Rover is at (", 1, ", ", 0, ") facing ", "W">>
    /\ RoverState = [x |-> 1, y |-> 0, direction |-> "West"]
    /\ pre = before.pre

\* the rover method a key stands for
MethodOf(c) ==
    CASE c = "M" -> "moveForward"
      [] c = "L" -> "turnLeft"
      [] c = "R" -> "turnRight"

\* the key of a rover method
KeyOf(m) ==
    CASE m = "moveForward" -> "M"
      [] m = "turnLeft"    -> "L"
      [] m = "turnRight"   -> "R"

\* C22: from every rover state, execute() of a MoveCommand, TurnLeftCommand
\* or TurnRightCommand leaves the rover in the state the direct call of
\* moveForward(), turnLeft() or turnRight() leaves it in, and returns
\* nothing; n executions of one command object in a row leave the rover
\* where n calls of the operation do.
C22_CommandsAreDirectCalls ==
    /\ op \in {"moveForward", "turnLeft", "turnRight"} =>
          /\ RoverState = Applied(pre, KeyOf(op))
          /\ ret = "void"
    /\ trace # <<>> =>
          LET n == Len(trace)
              k == trace[1].cmd
          IN  /\ op = MethodOf(k)
              /\ trace[n].before = pre
              /\ trace[n].after = RoverState
              /\ \A i \in 1 .. n :
                    /\ trace[i].cmd = k
                    /\ trace[i].after = Applied(trace[i].before, k)
                    /\ i > 1 => trace[i].before = trace[i - 1].after
              /\ RoverState = AppliedAll(trace[1].before, [i \in 1 .. n |-> k])

\* one MoveCommand was executed three times on a 2x2 grid with an obstacle
\* at (1,1): from (1,-1) facing North the rover came to (1,0) and stayed
C22_Witness ==
    /\ Len(trace) = 3
    /\ trace[1].cmd = "M"
    /\ HoldsObstacle(1, 1)
    /\ InGrid(1, 1)
    /\ trace[1].before = [x |-> 1, y |-> -1, direction |-> "North"]
    /\ trace[2].before = [x |-> 1, y |-> 0, direction |-> "North"]
    /\ RoverState = [x |-> 1, y |-> 0, direction |-> "North"]
    /\ Len(logged) = 1

\* the coordinates a grid of the model can be asked about
FrameCoord == -1 .. (MaxDim + 1)

\* C23: width and height never change after construction; no operation
\* removes a registered component: the components change only by add(),
\* which appends its argument; a coordinate for which isBlocked is true
\* stays blocked; no rover operation or command changes the grid.
C23_GridFrame ==
    [][/\ width' = width
       /\ height' = height
       /\ Len(components') >= Len(components)
       /\ SubSeq(components', 1, Len(components)) = components
       /\ components' # components =>
              /\ op' = "add"
              /\ components' = Append(components, args'[1])
       /\ op' \in {"turnLeft", "turnRight", "moveForward", "report"} =>
              components' = components
       /\ \A px \in FrameCoord : \A py \in FrameCoord :
              IsBlocked(components, px, py) => IsBlocked(components', px, py)]_vars

\* an obstacle and then a plain cell were added at (0,1): the rover's move
\* from (0,0) to (0,1) is still rejected
C23_Witness ==
    /\ components = <<Obstacle(0, 1), Cell(0, 1)>>
    /\ height = 2
    /\ op = "moveForward"
    /\ pre = [x |-> 0, y |-> 0, direction |-> "North"]
    /\ RoverState = pre
    /\ Len(logged) = 1
    /\ IsBlocked(components, 0, 1)

\* C24: when the rover is constructed on a cell that is within bounds and
\* not an obstacle and no obstacle is added afterwards, then in every state
\* reached by any sequence of M, L, R and invalid characters the rover's
\* position is within bounds and not on an obstacle.
C24_SafeFromValidStart == InGrid(x, y) /\ ~HoldsObstacle(x, y)

\* the rover is at (1,0) facing North, in the grid and on no obstacle: its
\* move into the obstacle at (1,1) has been rejected
C24_Witness ==
    /\ op = "moveForward"
    /\ pre = [x |-> 1, y |-> 0, direction |-> "North"]
    /\ HoldsObstacle(1, 1)
    /\ InGrid(1, 1)
    /\ Len(logged) = 1
    /\ RoverState = pre

----------------------------------------------------------------------------
(* Properties of the NotificationCenter (SpecObserver) *)

\* the calls made about observer o
CallsAbout(o) == {i \in 1 .. Len(calls) : calls[i].observer = o}

\* o is subscribed: the last call about it is a subscribe
IsSubscribed(o) ==
    /\ CallsAbout(o) # {}
    /\ LET last == CHOOSE i \in CallsAbout(o) : \A j \in CallsAbout(o) : j <= i
       IN  calls[last].call = "subscribe"

\* the call that began the present subscription of o: its first subscribe
\* after its last unsubscribe
JoinedAt(o) ==
    CHOOSE i \in CallsAbout(o) :
        /\ calls[i].call = "subscribe"
        /\ \A j \in CallsAbout(o) : j >= i => calls[j].call = "subscribe"
        /\ \A j \in CallsAbout(o) : j < i =>
               \E k \in CallsAbout(o) : j <= k /\ k < i /\ calls[k].call = "unsubscribe"

\* C25: notify(n) calls update(n) exactly once on every observer subscribed
\* when it is called, in the order of their subscriptions, and on no
\* observer never subscribed or unsubscribed since, however often subscribe
\* was called for an observer; an update that throws is caught: notify
\* returns, and the observers after the thrower get their update.
C25_NotifyEachSubscribedOnce ==
    op = "notify" =>
        /\ ret = "void"
        /\ \A o \in ObserverIds :
              Cardinality({i \in 1 .. Len(updates) : updates[i].observer = o})
                  = IF IsSubscribed(o) THEN 1 ELSE 0
        /\ \A i \in 1 .. Len(updates) :
              /\ updates[i].notification = args[1]
              /\ \A j \in (i + 1) .. Len(updates) :
                    JoinedAt(updates[i].observer) < JoinedAt(updates[j].observer)
        /\ notifications[Len(notifications)] = args[1]

\* sms, the throwing observer and email, twice, were subscribed and sms was
\* unsubscribed: a notify has called update on the thrower and then on
\* email, once each
C25_Witness ==
    /\ op = "notify"
    /\ calls = << [call |-> "subscribe", observer |-> "sms"],
                  [call |-> "subscribe", observer |-> "faulty"],
                  [call |-> "subscribe", observer |-> "email"],
                  [call |-> "subscribe", observer |-> "email"],
                  [call |-> "unsubscribe", observer |-> "sms"] >>
    /\ Len(updates) = 2
    /\ updates[1].observer = "faulty"
    /\ updates[1].threw
    /\ updates[2].observer = "email"
    /\ ~updates[2].threw
    /\ ret = "void"

----------------------------------------------------------------------------
(* Properties of executeWithRetry (SpecRetry) *)

RECURSIVE Pow2(_)
Pow2(n) == IF n = 0 THEN 1 ELSE 2 * Pow2(n - 1)

\* the call failed in a way that is retried
Retried(o) == o.kind \in {"retryable", "error"}

\* C26: executeWithRetry calls operation at most maxRetries times; it
\* returns the result of the first call that succeeds and makes no call
\* after it; a call failing with an ApplicationError that is not retryable
\* is rethrown at once, with no further attempt; when all maxRetries calls
\* fail with other errors the error of the last call is thrown; the waits
\* between consecutive attempts are delay, 2*delay, 4*delay, ...
C26_RetryContract ==
    op = "executeWithRetry" =>
        LET m == args[1]
            d == args[2]
            n == Len(operationCalls)
        IN  /\ n <= m
            /\ \A i \in 1 .. (n - 1) : Retried(operationCalls[i])
            /\ (n >= 1 /\ operationCalls[n].kind = "value") =>
                  /\ ret = Returned(operationCalls[n])
                  /\ ~ENABLED RetryAttempt
                  /\ Len(slept) = n - 1
            /\ ret.settled = "returned" =>
                  /\ n >= 1
                  /\ operationCalls[n].kind = "value"
            /\ (n >= 1 /\ operationCalls[n].kind = "fatal") =>
                  /\ ret = Thrown(operationCalls[n])
                  /\ ~ENABLED RetryAttempt
                  /\ ~ENABLED SleepEnds
                  /\ Len(slept) = n - 1
            /\ (n >= 1 /\ n = m /\ Retried(operationCalls[n])) =>
                  /\ ret = Thrown(operationCalls[n])
                  /\ ~ENABLED RetryAttempt
                  /\ Len(slept) = m - 1
            /\ \A i \in 1 .. Len(slept) : slept[i] = d * Pow2(i - 1)
            /\ n >= 1 => Len(slept) \in {n - 1, n}
            /\ Len(slept) = n => (n = 0 \/ retryPc = "sleeping" \/ ret = Pending)

\* executeWithRetry(op, 3, 1000): three calls failed with retryable errors,
\* the waits were 1000 and 2000, the third error was thrown
C26_Witness ==
    /\ op = "executeWithRetry"
    /\ args = <<3, 1000>>
    /\ Len(operationCalls) = 3
    /\ operationCalls[1].kind = "retryable"
    /\ operationCalls[2].kind = "error"
    /\ operationCalls[3].kind = "retryable"
    /\ slept = <<1000, 2000>>
    /\ ret = Thrown(Outcome("retryable", 3))
    /\ retryPc = "done"

----------------------------------------------------------------------------
(* Properties of the ReportBuilder (SpecBuilder) *)

\* build() has returned a report
Built == op = "build" /\ ret.kind = "report"

\* how many of the first i sections added came without an order
Unordered(i) == Cardinality({k \in 1 .. i : added[k].order = <<>>})

\* the report holds a section with the title and content of the i-th
\* section added and the order n
Carries(i, n) ==
    \E j \in 1 .. Len(ret.sections) :
        ret.sections[j] = [title |-> added[i].title,
                           content |-> added[i].content,
                           order |-> n]

\* C27: a section added with addSection(title, content, order) carries
\* exactly that order in the built report, and the sections added without
\* an order get the successive orders 1, 2, ...; the section of
\* addExecutiveSummary has order 0 and stands in getSections() before every
\* section whose order is 1 or more; the section of addConclusions has
\* order 1000.
C27_SectionsCarryTheirOrder ==
    Built =>
        /\ \A i \in 1 .. Len(added) :
              IF added[i].order = <<>>
              THEN Carries(i, Unordered(i))
              ELSE Carries(i, added[i].order[1])
        /\ \A j \in 1 .. Len(ret.sections) :
              /\ ret.sections[j].title = "Executive Summary" =>
                    /\ ret.sections[j].order = 0
                    /\ \A k \in 1 .. Len(ret.sections) :
                          ret.sections[k].order >= 1 => j < k
              /\ ret.sections[j].title = "Conclusions" =>
                    ret.sections[j].order = 1000

\* some section of the builder has an empty or blank title or content
SomeSectionEmpty ==
    \E i \in 1 .. Len(sections) :
        IsEmptyString(sections[i].title) \/ IsEmptyString(sections[i].content)

\* how often the record r occurs in the array arr
Occurrences(arr, r) == Cardinality({i \in 1 .. Len(arr) : arr[i] = r})

\* ret is a report that holds every section of the builder, sorted by
\* ascending order, and the builder's tags and format
ReportOfBuilder ==
    /\ ret.kind = "report"
    /\ Len(ret.sections) = Len(sections)
    /\ \A i \in 1 .. Len(sections) :
          Occurrences(ret.sections, sections[i]) = Occurrences(sections, sections[i])
    /\ \A i \in 1 .. Len(ret.sections) : \A j \in (i + 1) .. Len(ret.sections) :
          ret.sections[i].order <= ret.sections[j].order
    /\ ret.tags = tags
    /\ ret.format = format
    /\ ret.title = title
    /\ ret.author = author

\* C28: build() throws an ApplicationError with code
\* BUILDER_VALIDATION_ERROR and returns no report whenever the title or the
\* author has not been set, whatever sections, tags or format were given;
\* when both are set it returns a report that holds every added section,
\* sorted by ascending order, and the builder's tags and format.
C28_BuildNeedsTitleAndAuthor ==
    op = "build" =>
        IF title = "" \/ author = ""
        THEN ret = ThrowsApplicationError("BUILDER_VALIDATION_ERROR")
        ELSE ReportOfBuilder

\* C28, amended: build() throws BUILDER_VALIDATION_ERROR and returns no
\* report whenever the title or the author has not been set; when both are
\* set and some added section has an empty or blank title or content it
\* throws an ApplicationError with code VALIDATION_ERROR and returns no
\* report; when both are set and no section is empty it returns a report
\* that holds every added section, sorted by ascending order, and the
\* builder's tags and format.
C28_BuildValidatesSectionsToo ==
    op = "build" =>
        IF title = "" \/ author = ""
        THEN ret = ThrowsApplicationError("BUILDER_VALIDATION_ERROR")
        ELSE IF SomeSectionEmpty
        THEN ret = ThrowsApplicationError("VALIDATION_ERROR")
        ELSE ReportOfBuilder

\* a builder with title, author, a tag, format JSON and the sections
\* Conclusions, Revenue (order 2) and Data Analysis, added in that order,
\* has built a report with the sections in the orders 1, 2, 1000
C28_Witness ==
    /\ op = "build"
    /\ ret.kind = "report"
    /\ title = "Q4 Report"
    /\ author = "John Smith"
    /\ tags = <<"quarterly">>
    /\ format = "JSON"
    /\ sections = << [title |-> "Conclusions", content |-> "conclusions", order |-> 1000],
                     [title |-> "Revenue", content |-> "text", order |-> 2],
                     [title |-> "Data Analysis", content |-> "analysis", order |-> 1] >>
    /\ ret.sections = << sections[3], sections[2], sections[1] >>
    /\ ret.tags = <<"quarterly">>
    /\ ret.format = "JSON"

----------------------------------------------------------------------------
(* DatabaseService *)

\* the last call was executeQuery on a service whose database was not connected
RefusedQuery == op = "executeQuery" /\ ~IsConnected(database)

\* a call of switchDatabase has just completed
Switched == op = "switchDatabase" /\ switchPc = "idle"

\* C29 (as stated): executeQuery on a service whose current database is
\* not connected throws SERVICE_ERROR and no query reaches a database; when
\* switchDatabase(newDb) completes, newDb is the current database and is
\* connected, and the database that was current before is disconnected.
C29_SwitchLeavesPreviousDisconnected ==
    /\ RefusedQuery =>
          /\ ret = ThrowsApplicationError("SERVICE_ERROR")
          /\ queries = queriesBefore
    /\ Switched =>
          /\ database = newDatabase
          /\ IsConnected(database)
          /\ ~IsConnected(previous.database)

\* C29 (amended): executeQuery on a service whose current database is not
\* connected throws SERVICE_ERROR and no query reaches a database, and on a
\* connected one the query reaches the current database; switchDatabase
\* first leaves the current database disconnected, then makes newDb current,
\* and when it completes newDb is current and connected, and the database
\* that was current before is disconnected unless it is newDb itself or
\* wraps the database object newDb wraps, in which case it is connected.
C29_SwitchLeavesOtherPreviousDisconnected ==
    /\ RefusedQuery =>
          /\ ret = ThrowsApplicationError("SERVICE_ERROR")
          /\ queries = queriesBefore
    /\ (op = "executeQuery" /\ IsConnected(database)) =>
          /\ ret = Rows
          /\ queries = Append(queriesBefore, <<Wraps(database), args[1]>>)
    /\ (op = "switchDatabase" /\ switchPc = "disconnecting") =>
          /\ previous.connected
          /\ database = previous.database
          /\ ~IsConnected(database)
    /\ (op = "switchDatabase" /\ switchPc = "connecting") =>
          /\ database = newDatabase
          /\ Wraps(previous.database) # Wraps(newDatabase) =>
                ~IsConnected(previous.database)
    /\ Switched =>
          /\ database = newDatabase
          /\ IsConnected(database)
          /\ IsConnected(previous.database)
                <=> Wraps(previous.database) = Wraps(newDatabase)

\* a switch from a connected database to one over another database object
\* has completed, after a query had reached the first
C29_Witness ==
    /\ Switched
    /\ previous.connected
    /\ Wraps(previous.database) # Wraps(newDatabase)
    /\ queries # <<>>
    /\ IsConnected(database)
    /\ ~IsConnected(previous.database)

----------------------------------------------------------------------------
(* MenuService *)

\* the number a line is: an optional sign and digits and nothing else
NumberOf(str) ==
    LET negative == str # <<>> /\ Head(str) = "-"
        body == IF negative THEN Tail(str) ELSE str
    IN  IF body = <<>> \/ \E i \in 1 .. Len(body) : ~IsDigit(body[i]) THEN NaN
        ELSE Num(IF negative THEN 0 - Decimal(body) ELSE Decimal(body))

\* the user chose 0 at the last menu
ChoseZero == NumberOf(choice) = Num(0)

\* the user chose the number of an item at the last menu
ChoseItem ==
    /\ ~NumberOf(choice).nan
    /\ NumberOf(choice).value \in 1 .. Len(currentMenu)

\* an action was called in the last cycle
ActionCalled ==
    \/ menuPc = "action"
    \/ ran # <<>> /\ ran[Len(ran)].cycle = shown

\* the action called in the last cycle threw
ActionThrew ==
    /\ ran # <<>>
    /\ ran[Len(ran)].cycle = shown
    /\ ran[Len(ran)].outcome # "value"

\* a non-retryable ApplicationError escaped the last cycle
CriticalEscaped ==
    /\ handled # <<>>
    /\ handled[Len(handled)] = <<"MenuService.start", "fatal">>

\* C30: once started, the service is running and start() has not returned
\* unless the user chose 0 at the last menu (stop() was called and the loop
\* ends) or a non-retryable ApplicationError escaped the last cycle; an
\* action is called only when the choice is a number between 1 and the
\* number of items; after an action threw, the service is still running
\* and start() returns only if a critical error escapes later.
C30_MenuLoop ==
    /\ (menuPc # "new" /\ ~isRunning) => ChoseZero
    /\ menuPc = "returned" => (ChoseZero /\ ~isRunning) \/ CriticalEscaped
    /\ (menuPc \notin {"new", "returned"} /\ ~ChoseZero) => isRunning
    /\ ActionCalled => ChoseItem
    /\ ActionThrew => isRunning /\ (menuPc = "returned" => CriticalEscaped)

\* the same on the value parseInt gives the line
ParsedZero == ParseInt(choice) = Num(0)

ParsedItem ==
    /\ ~ParseInt(choice).nan
    /\ ParseInt(choice).value \in 1 .. Len(currentMenu)

MenuLoopOnParsedChoice ==
    /\ (menuPc # "new" /\ ~isRunning) => ParsedZero
    /\ menuPc = "returned" => (ParsedZero /\ ~isRunning) \/ CriticalEscaped
    /\ (menuPc \notin {"new", "returned"} /\ ~ParsedZero) => isRunning
    /\ ActionCalled => ParsedItem
    /\ ActionThrew => isRunning /\ (menuPc = "returned" => CriticalEscaped)

=============================================================================
